---------------------------- MODULE Spec2Model ----------------------------
(***************************************************************************)
(* The booking backends of the repository.  The repository holds several   *)
(* near-duplicate servers (one per source file); `variant' names the one   *)
(* that is deployed, and is fixed for a whole behaviour.  The store is the  *)
(* relational database (customers, services, bookings) with the schema the *)
(* variant's initDb creates; a request is handled in a slot of `req', one   *)
(* step per storage round trip, so that handlers interleave where the code  *)
(* awaits.  `mix' names the kind of requests the clients of a behaviour     *)
(* send (which fields of the body they vary); it is fixed for a behaviour.  *)
(***************************************************************************)
EXTENDS Integers, Sequences, FiniteSets, TLC

VARIABLES variant, mix, boot, now, customers, bookings, custSeq, bookSeq, parts,
          loyalty, req

vars == <<variant, mix, boot, now, customers, bookings, custSeq, bookSeq, parts,
          loyalty, req>>

-----------------------------------------------------------------------------
(* Bounds of the model. *)

\* request slots: how many requests can be in flight (or answered, unread)
MaxReq == 2
\* Date.now() runs from 1 to MaxNow
MaxNow == 2
\* bookings a behaviour may insert on top of the seeded ones
MaxNewBookings == 2
\* customers a behaviour may insert on top of the seeded ones
MaxNewCustomers == 2
\* rows a behaviour may insert into job_parts
MaxParts == 2
\* visits a loyalty row may count
MaxVisits == 2
MaxLegacy == 2

Reqs == 1..MaxReq

-----------------------------------------------------------------------------
(* Absent values.  A field missing from a JSON body is undefined in the     *)
(* handler and NULL once bound to a query parameter.  Ids are positive and  *)
(* names, e-mails and locations are non-empty in every input, so 0, "" and  *)
(* <<>> are free to stand for the absent id, string and plate/token.        *)
NoId == 0
NoStr == ""
NoSeq == << >>
\* bookings.total_cost IS NULL
NoCost == -1
NoTime == 0

-----------------------------------------------------------------------------
(* Number plates are sequences of characters, so that String.toUpperCase    *)
(* and String.replace act on them as they do in the handlers.               *)

LowerLetters == {"a", "b", "c", "d", "e"}
UpperLetters == {"A", "B", "C", "D", "E", "F", "G", "M"}
Digits == {"1", "2", "3", "4", "5", "6", "7"}
Space == " "

UpperChar(c) ==
  CASE c = "a" -> "A" [] c = "b" -> "B" [] c = "c" -> "C"
    [] c = "d" -> "D" [] c = "e" -> "E" [] OTHER -> c

\* String.prototype.toUpperCase
ToUpperCase(s) == [i \in 1..Len(s) |-> UpperChar(s[i])]

\* s.replace(/\s+/, ' '): no g flag, so only the FIRST run of whitespace is
\* replaced by one space
FirstSpace(s) ==
  IF \E i \in 1..Len(s) : s[i] = Space
  THEN CHOOSE i \in 1..Len(s) : s[i] = Space /\ \A j \in 1..(i-1) : s[j] # Space
  ELSE 0

RunEnd(s, i) ==
  CHOOSE k \in i..Len(s) :
    /\ \A j \in i..k : s[j] = Space
    /\ (k = Len(s) \/ s[k+1] # Space)

ReplaceFirstSpaceRun(s) ==
  LET i == FirstSpace(s) IN
  IF i = 0 THEN s
  ELSE SubSeq(s, 1, i-1) \o <<Space>> \o SubSeq(s, RunEnd(s, i) + 1, Len(s))

\* s.replace(/ /g, ''): every space removed
RECURSIVE RemoveSpaces(_)
RemoveSpaces(s) ==
  IF s = << >> THEN << >>
  ELSE IF Head(s) = Space THEN RemoveSpaces(Tail(s))
       ELSE <<Head(s)>> \o RemoveSpaces(Tail(s))

\* what the variant's create handler does to the plate of the body before it
\* binds it to the INSERT
NormalizePlate(v, s) ==
  CASE v = "server_js" -> ReplaceFirstSpaceRun(ToUpperCase(s))
    [] v = "part_008" -> RemoveSpaces(ToUpperCase(s))
    [] v = "part_016" -> s
    [] OTHER -> ToUpperCase(s)

\* the plates the requests carry
PlateLower2 == <<"a","b","1","2"," ","c","d","e">>
PlateTwoSp == <<"A","B","1","2"," "," ","C","D","E">>
PlateSplit == <<"A","B"," ","1","2"," ","C","D","E">>
PlateShort == <<"A","B","1"," ","C","D">>
PlateNoDigits == <<"A","B","C","D","E","F","G">>

Plates == {PlateLower2, PlateTwoSp, PlateSplit, PlateShort, PlateNoDigits}


-----------------------------------------------------------------------------
(* The deployed server and the requests its clients send. *)

Deployments ==
  { <<"part_013", "customers">>, <<"part_013", "services">>, <<"part_013", "plates">>,
    <<"server_js", "customers">>, <<"server_js", "services">>,
    <<"server_js", "plates">>, <<"server_js", "jobs">>,
    <<"part_014", "customers">>, <<"part_014", "services">>,
    <<"part_015", "services">>, <<"part_015", "plates">>,
    <<"part_003", "tokens">>,
    <<"part_005", "fields">>, <<"part_016", "fields">>, <<"part_001", "fields">>,
    <<"part_006", "jobs">>, <<"part_006", "tokens">>,
    <<"part_008", "plates">>, <<"part_008", "jobs">>,
    <<"part_016", "faults">>, <<"part_010", "faults">>,
    <<"server_a", "fields">>,
    <<"part_013", "faults">>, <<"part_014", "faults">>,
    <<"part_006", "backfill">>,
    <<"part_017", "fields">>,
    <<"part_013", "restart">>, <<"part_014", "restart">>, <<"server_a", "restart">>,
    <<"part_002", "faults">>, <<"part_008", "tickets">>, <<"server_js", "parts">>,
    <<"part_013", "coords">>, <<"part_015", "coords">>, <<"part_017", "coords">> }

\* part_008 creates no table: its schema is the one the specification gives
\* (section 6): customers.email unique, bookings (here: jobs) with foreign
\* keys to customers and services, one loyalty row per customer
EmailUnique008 == TRUE
Catalog008 == {1, 2}

\* customers.email carries a UNIQUE constraint in the variant's schema
EmailUnique(v) ==
  \/ v \in {"server_js", "server_a", "part_013", "part_003", "part_005", "part_001"}
  \/ v = "part_008" /\ EmailUnique008

\* bookings.qr_code carries a UNIQUE constraint in the variant's schema
TokenUnique(v) == v \in {"part_003", "part_006"}

\* the variants whose handlers read Date.now()
ReadsClock(v) == v \in {"part_013", "part_014", "part_015", "part_001", "part_017"}

\* number of rows initDb inserts into services
ServiceCount(v) ==
  CASE v = "part_013" -> 30
    [] v = "server_js" -> 7
    [] v = "part_014" -> 5
    [] v = "part_015" -> 30
    [] v = "part_003" -> 7
    [] v = "part_005" -> 5
    [] v = "part_016" -> 5
    [] v = "part_001" -> 3
    [] v = "server_a" -> 3
    [] v = "part_017" -> 3
    [] v = "part_002" -> 3
    [] OTHER -> 0

ServiceIds(v) == IF v = "part_008" THEN Catalog008 ELSE 1..ServiceCount(v)

\* QRCode.toDataURL(text): the data URL of the QR image that encodes text;
\* two texts give the same URL only when they are the same text
QRDataURL(text) == <<"data:image/png;base64", text>>

\* rows initDb inserts into customers
SeedCustomers(v) ==
  CASE v = "part_013" ->
         { [id |-> 1, name |-> "John Smith", email |-> "john@example.com"],
           [id |-> 2, name |-> "Emma Johnson", email |-> "emma@example.com"],
           [id |-> 3, name |-> "Liam Brown", email |-> "liam@example.com"] }
    [] v = "server_js" ->
         { [id |-> 1, name |-> "Alice Smith", email |-> "alice@example.com"],
           [id |-> 2, name |-> "Bob Johnson", email |-> "bob@example.com"],
           [id |-> 3, name |-> "Charlie Lee", email |-> "charlie@example.com"] }
    [] v = "part_014" ->
         { [id |-> 1, name |-> "Alice", email |-> "alice@test.com"],
           [id |-> 2, name |-> "Bob", email |-> "bob@test.com"] }
    [] v = "part_003" ->
         { [id |-> 1, name |-> "Alice", email |-> "alice@test.com"],
           [id |-> 2, name |-> "Bob", email |-> "bob@test.com"],
           [id |-> 3, name |-> "Charlie", email |-> "charlie@test.com"] }
    [] v = "part_016" ->
         { [id |-> 1, name |-> "Alice", email |-> "alice@test.com"],
           [id |-> 2, name |-> "Bob", email |-> "bob@test.com"],
           [id |-> 3, name |-> "Charlie", email |-> "charlie@test.com"] }
    [] v = "server_a" ->
         { [id |-> 1, name |-> "John Doe", email |-> "john@example.com"],
           [id |-> 2, name |-> "Jane Smith", email |-> "jane@example.com"],
           [id |-> 3, name |-> "Bob Johnson", email |-> "bob@example.com"] }
    [] v = "part_017" ->
         { [id |-> 1, name |-> "John Doe", email |-> "john@example.com"],
           [id |-> 2, name |-> "Jane Smith", email |-> "jane@example.com"],
           [id |-> 3, name |-> "Bob Lee", email |-> "bob@example.com"] }
    [] v = "part_002" ->
         { [id |-> 1, name |-> "Alice Smith", email |-> "alice@test.com"],
           [id |-> 2, name |-> "Bob Jones", email |-> "bob@test.com"],
           [id |-> 3, name |-> "Charlie Brown", email |-> "charlie@test.com"] }
    [] v = "part_005" ->
         { [id |-> 1, name |-> "Ali Khan", email |-> "ali@example.com"],
           [id |-> 2, name |-> "Sophie Brown", email |-> "sophie@example.com"],
           [id |-> 3, name |-> "Carlos Diaz", email |-> "carlos@example.com"] }
    [] OTHER -> {}

\* `ME${i}ABC`
SeedPlate013(i) == <<"M", "E", CHOOSE d \in Digits : d = ToString(i), "A", "B", "C">>

\* crypto.randomBytes(8).toString('hex'), for the n-th value of the generator
HexToken(n) == <<"hex", n>>

\* vehicle_reg of the dummy bookings of part_003, lines 203-207
SeedPlate003(i) ==
  CASE i = 1 -> <<"A","B","1","2","C","D","E">>
    [] i = 2 -> <<"C","D","3","4","E","F","G">>
    [] i = 3 -> <<"E","F","5","6","G","A","B">>
    [] i = 4 -> <<"G","A","7","1","B","C","D">>
    [] OTHER -> <<"B","C","2","3","D","E","F">>

\* the dummy bookings of part_005, lines 106-116:
\* <<customer_id, service_id, location, status>>
Seed005 ==
  << <<1, 1, "London", "completed">>, <<1, 2, "London", "pending">>,
     <<2, 3, "Manchester", "in-progress">>, <<3, 4, "Birmingham", "pending">>,
     <<2, 5, "Leeds", "completed">>, <<1, 3, "Glasgow", "pending">>,
     <<3, 2, "Bradford", "in-progress">>, <<2, 1, "Liverpool", "completed">>,
     <<1, 4, "London", "pending">>, <<3, 5, "Nottingham", "pending">> >>

\* the dummy bookings of part_016, lines 88-91:
\* <<address, postcode, number_plate>>
Seed016 ==
  << <<"Medway Rd, Chatham", "ME4 5AA", <<"A","B","1","2","C","D","E">> >>,
     <<"Medway St, Gillingham", "ME7 1BB", <<"X","Y","3","4","Z","X","Y">> >>,
     <<"Medway Ave, Rochester", "ME1 2CC", <<"C","D","5","6","E","F","G">> >> >>

\* reg of the dummy bookings of the first server of server.js, lines 261-265
SeedRegA(i) ==
  CASE i = 1 -> <<"A","B","1","2","C","D","E">>
    [] i = 2 -> <<"X","Y","3","4","Z","G","H">>
    [] OTHER -> <<"M","N","5","6","O","P","Q">>

\* number_plate of the dummy bookings of part_002, lines 120-124
SeedPlate002(i) ==
  CASE i = 1 -> <<"A","B","1","2"," ","C","D","E">>
    [] i = 2 -> <<"X","Y","3","4"," ","Z","Y","X">>
    [] OTHER -> <<"L","M","5","6"," ","N","O","P">>

\* rows initDb inserts into bookings
SeedBookings(v) ==
  CASE v = "part_002" ->
         { [id |-> i, customer_id |-> i, service_id |-> i, plate |-> SeedPlate002(i),
            location |-> "Medway", postcode |-> NoStr, lat |-> "51.33", lng |-> "0.55",
            date_time |-> NoStr, start_time |-> NoTime, end_time |-> NoTime, parts_used |-> NoStr, total_cost |-> NoCost, status |-> "pending",
            token |-> QRDataURL(<<SeedPlate002(i), "Medway", "service", i>>)] : i \in 1..3 }
    [] v = "part_013" ->
         { [id |-> i, customer_id |-> ((i - 1) % 3) + 1, service_id |-> i,
            plate |-> SeedPlate013(i), location |-> NoStr, postcode |-> NoStr, lat |-> NoStr, lng |-> NoStr, date_time |-> NoStr, start_time |-> NoTime, end_time |-> NoTime, parts_used |-> NoStr, total_cost |-> NoCost,
            status |-> "Confirmed",
            token |-> QRDataURL(<<"Booking", i, SeedPlate013(i)>>)] : i \in 1..7 }
    [] v = "part_003" ->
         { [id |-> i, customer_id |-> ((i - 1) % 3) + 1, service_id |-> i,
            plate |-> SeedPlate003(i), location |-> "Medway, UK", postcode |-> NoStr, lat |-> NoStr, lng |-> NoStr, date_time |-> NoStr, start_time |-> NoTime, end_time |-> NoTime, parts_used |-> NoStr, total_cost |-> NoCost,
            status |-> "Pending", token |-> HexToken(i)] : i \in 1..5 }
    [] v = "part_005" ->
         { [id |-> i, customer_id |-> Seed005[i][1], service_id |-> Seed005[i][2],
            plate |-> NoSeq, location |-> Seed005[i][3], postcode |-> NoStr,
            lat |-> NoStr, lng |-> NoStr, date_time |-> NoStr, start_time |-> NoTime, end_time |-> NoTime, parts_used |-> NoStr, total_cost |-> NoCost, status |-> Seed005[i][4], token |-> NoSeq] :
             i \in 1..10 }
    [] v = "part_016" ->
         { [id |-> i, customer_id |-> i, service_id |-> i,
            plate |-> Seed016[i][3], location |-> Seed016[i][1],
            postcode |-> Seed016[i][2], lat |-> NoStr, lng |-> NoStr, date_time |-> NoStr, start_time |-> NoTime, end_time |-> NoTime, parts_used |-> NoStr, total_cost |-> NoCost,
            status |-> "pending", token |-> NoSeq] : i \in 1..3 }
    [] v = "server_a" ->
         { [id |-> i, customer_id |-> i, service_id |-> i, plate |-> SeedRegA(i),
            location |-> "Medway", postcode |-> NoStr, lat |-> NoStr, lng |-> NoStr, date_time |-> NoStr, start_time |-> NoTime, end_time |-> NoTime, parts_used |-> NoStr, total_cost |-> NoCost,
            status |-> "pending", token |-> NoSeq] : i \in 1..3 }
    [] v = "part_017" ->
         { [id |-> i, customer_id |-> i, service_id |-> i, plate |-> NoSeq,
            location |-> NoStr, postcode |-> NoStr, lat |-> "51.33", lng |-> "0.55", date_time |-> NoStr, start_time |-> NoTime, end_time |-> NoTime, parts_used |-> NoStr, total_cost |-> NoCost,
            status |-> "pending", token |-> NoSeq] : i \in 1..3 }
    [] v = "part_006" ->
         { [id |-> i, customer_id |-> NoId, service_id |-> NoId,
            plate |-> <<"A","B","1","2","C","D","E", ToString(i)>>,
            location |-> "Address", postcode |-> NoStr, lat |-> NoStr, lng |-> NoStr, date_time |-> NoStr, start_time |-> NoTime, end_time |-> NoTime, parts_used |-> NoStr, total_cost |-> NoCost,
            status |-> "pending", token |-> HexToken(i)] : i \in 1..10 }
    [] OTHER -> {}

-----------------------------------------------------------------------------
(* Request bodies and responses. *)

NoBody ==
  [name |-> NoStr, email |-> NoStr, customer_id |-> NoId, service_id |-> NoId,
   plate |-> NoSeq, location |-> NoStr, postcode |-> NoStr, id |-> NoId,
   parts |-> << >>, labor |-> 0, code |-> NoStr, lat |-> NoStr, lng |-> NoStr,
   caller |-> NoStr]

NoResp == [code |-> 0, ok |-> FALSE, book |-> NoId, token |-> NoSeq, status |-> NoStr]

\* the latitude and longitude a request body carries, each present or not
Coords == {<<"51.34", "0.56">>, <<"51.34", NoStr>>, <<NoStr, "0.56">>, <<NoStr, NoStr>>}
WithCoords(b, c) == [b EXCEPT !.lat = c[1], !.lng = c[2]]

IdleSlot ==
  [pc |-> "idle", op |-> NoStr, body |-> NoBody, cust |-> NoId, resp |-> NoResp,
   wc |-> {}, uc |-> {}, wb |-> {}, after |-> {}, fresh |-> FALSE, redo |-> FALSE]

\* res.status(code).json(...) that reports no booking
Failure(code) == [NoResp EXCEPT !.code = code]

\* res.json({booking_id}): the response names the new row and nothing else
SuccessId(row) == [NoResp EXCEPT !.code = 200, !.ok = TRUE, !.book = row.id]

\* res.json({success:true}) of an operation on an existing booking
SuccessPlain == [NoResp EXCEPT !.code = 200, !.ok = TRUE]

\* res.json(...) that reports the inserted booking row
Success(row) ==
  [code |-> 200, ok |-> TRUE, book |-> row.id, token |-> row.token, status |-> row.status]

EmailSeen(e) == \E c \in customers : c.email = e

NewCustomers == custSeq - Cardinality(SeedCustomers(variant)) - 1
NewBookings == bookSeq - Cardinality(SeedBookings(variant)) - 1

\* handlers that are between two storage round trips
InFlight(pcs) == Cardinality({q \in Reqs : req[q].pc \in pcs})

CustomerBudget == NewCustomers + InFlight({"inscust"}) < MaxNewCustomers
BookingBudget == NewBookings + InFlight({"inscust", "insbook"}) < MaxNewBookings

\* a slot takes a request when it is free: never used, or answered
Free(r) == req[r].pc \in {"idle", "done"}

\* the request with body b enters slot r.  after: the slots already answered
\* at that moment; fresh: the request's e-mail is in no customer row yet
Accept(r, op, b) ==
  [IdleSlot EXCEPT !.op = op, !.body = b,
                   !.after = {q \in Reqs \ {r} : req[q].pc = "done"},
                   !.fresh = (b.email # NoStr /\ ~EmailSeen(b.email))]

Done(slot, resp) == [slot EXCEPT !.pc = "done", !.resp = resp]

\* req once slot r has taken a request and reached s: what slot r held before
\* is no longer an earlier request of the others
Take(r, s) ==
  [q \in Reqs |-> IF q = r THEN s ELSE [req[q] EXCEPT !.after = @ \ {r}]]

-----------------------------------------------------------------------------
(* The storage layer: what PostgreSQL does with an INSERT under the         *)
(* variant's schema.                                                        *)

\* the column constraints of bookings that an INSERT can violate
BookingInsertFails(v, row) ==
  \/ row.customer_id # NoId /\ row.customer_id \notin {c.id : c \in customers}
  \/ row.service_id # NoId /\ row.service_id \notin ServiceIds(v)
  \/ v \in {"part_013", "part_003", "server_a"} /\ row.plate = NoSeq
  \/ v \in {"server_js", "server_a", "part_013", "part_003"} /\ Len(row.plate) > 10
  \/ v = "part_003" /\ row.location = NoStr
  \/ v = "part_016" /\ (row.location = NoStr \/ row.postcode = NoStr)
  \/ TokenUnique(v) /\ row.token # NoSeq /\ \E b \in bookings : b.token = row.token

\* the column constraints of customers that an INSERT can violate
CustomerInsertFails(v, name, email) ==
  \/ v \in {"part_013", "part_014", "part_003", "part_016"} /\ name = NoStr
  \/ v \in {"part_013", "part_016"} /\ email = NoStr
  \/ EmailUnique(v) /\ email # NoStr /\ EmailSeen(email)

\* a query can be rejected by the store itself (connection lost, pool
\* exhausted) and QRCode.toDataURL can reject; the behaviours of mix "faults"
\* meet such rejections in the token step of the create handlers
Faults == IF mix = "faults" THEN {FALSE, TRUE} ELSE {FALSE}

-----------------------------------------------------------------------------
\* Math.floor(Math.random() * 20), at its ends
Points003 == {0, 19}

\* the tables the loyalty seed of initDb can leave: part_003 (lines 217-224)
\* inserts one row per dummy customer with random points; part_008 seeds none
SeedLoyalty(v) ==
  IF v = "part_003"
  THEN { {[customer_id |-> c, visits |-> p[c]] : c \in 1..3} : p \in [1..3 -> Points003] }
  ELSE { {} }

\* part_006 creates its table IF NOT EXISTS and keeps the rows it finds: a
\* table that is older than the qr_code values has rows whose qr_code IS NULL
\* (here the first MaxLegacy rows), the rows initQRCodes is written for
Legacy006 ==
  { [b EXCEPT !.token = IF b.id <= MaxLegacy THEN NoSeq ELSE @] :
      b \in SeedBookings("part_006") }

\* the listen callback of part_006 (lines 149-153) at the call of
\* initQRCodes; a server whose table holds no row without qr_code, or that
\* has no start-up work at all, is up
Booting == [pc |-> "select", todo |-> {}]
Up == [pc |-> "up", todo |-> {}]

\* a server started again on the database of its last run (mix "restart"):
\* the routes answer while initDb has been called and has not yet dropped the
\* tables (part_013 line 148, before app.listen; part_014 and the first
\* server of server.js in the listen callback)
Restarting == [pc |-> "initdb", todo |-> {}]

\* the store of part_008 once a customer has registered and booked a job
\* (POST /register, POST /book, lines 46-103): where the behaviours of mix
\* "tickets" start
Booked008 ==
  [customers |-> {[id |-> 1, name |-> "Alice", email |-> "zoe@example.com"]},
   jobs |-> {[id |-> 1, customer_id |-> 1, service_id |-> 1,
              plate |-> <<"A","B","1","2","C","D","E">>, location |-> NoStr,
              postcode |-> NoStr, lat |-> NoStr, lng |-> NoStr,
              date_time |-> "2026-01-10T09:00", start_time |-> NoTime,
              end_time |-> NoTime, parts_used |-> NoStr, total_cost |-> NoCost,
              status |-> "pending", token |-> <<"check", 1>>]}]

Init ==
  /\ \E d \in Deployments : variant = d[1] /\ mix = d[2]
  /\ boot = CASE mix = "backfill" -> Booting
              [] mix = "restart" -> Restarting
              [] OTHER -> Up
  /\ now = 1
  /\ customers = IF mix = "tickets" THEN Booked008.customers ELSE SeedCustomers(variant)
  /\ bookings = CASE mix = "backfill" -> Legacy006
                  [] mix = "tickets" -> Booked008.jobs
                  [] OTHER -> SeedBookings(variant)
  /\ custSeq = Cardinality(customers) + 1
  /\ bookSeq = Cardinality(bookings) + 1
  /\ parts = << >>
  /\ loyalty \in SeedLoyalty(variant)
  /\ req = [r \in Reqs |-> IdleSlot]

\* initDb: DROP TABLE IF EXISTS of every table, CREATE TABLE, and the dummy
\* rows; every row of the last run is gone and the SERIAL ids start again.
\* part_013 runs it in one transaction; the other two run the statements
\* one after another, taken here as one step
InitDb ==
  /\ variant \in {"part_013", "part_014", "server_a"}
  /\ boot.pc = "initdb"
  /\ boot' = Up
  /\ customers' = SeedCustomers(variant)
  /\ bookings' = SeedBookings(variant)
  /\ custSeq' = Cardinality(SeedCustomers(variant)) + 1
  /\ bookSeq' = Cardinality(SeedBookings(variant)) + 1
  /\ loyalty' \in SeedLoyalty(variant)
  /\ parts' = << >>
  /\ UNCHANGED <<variant, mix, now, req>>

\* a millisecond passes
Tick ==
  /\ ReadsClock(variant)
  /\ now < MaxNow
  /\ now' = now + 1
  /\ UNCHANGED <<variant, mix, boot, parts, loyalty, customers, bookings, custSeq, bookSeq, req>>

-----------------------------------------------------------------------------
(* part_013: POST /api/book *)

Base013 ==
  [NoBody EXCEPT !.name = "Alice", !.email = "zoe@example.com",
                 !.service_id = 1, !.plate = PlateLower2]

Bodies013 ==
  CASE mix \in {"faults", "restart"} -> { Base013 }
    [] mix = "customers" ->
         { [Base013 EXCEPT !.name = n[1], !.service_id = n[2], !.email = e] :
             n \in {<<"Alice", 1>>, <<"Bob", 2>>}, e \in {"zoe@example.com", "john@example.com"} }
           \cup { [Base013 EXCEPT !.email = NoStr], [Base013 EXCEPT !.name = NoStr] }
    [] mix = "services" ->
         { [Base013 EXCEPT !.service_id = s] : s \in {NoId, 1, 999} }
    [] mix = "plates" ->
         { [Base013 EXCEPT !.plate = p] :
             p \in {NoSeq, PlateLower2, PlateTwoSp, PlateNoDigits} }
    [] mix = "coords" -> { WithCoords(Base013, c) : c \in Coords }
    [] OTHER -> {}

\* lines 167-175: the missing-field check and the customer upsert
Book013_Upsert(r, b) ==
  /\ variant = "part_013"
  /\ Free(r)
  /\ LET a == Accept(r, "book", b) IN
     IF b.name = NoStr \/ b.email = NoStr \/ b.service_id = NoId \/ b.plate = NoSeq
     THEN /\ req' = Take(r, Done(a, Failure(400)))
          /\ UNCHANGED <<customers, custSeq>>
     ELSE IF EmailSeen(b.email)
     THEN \* ON CONFLICT (email) DO UPDATE SET name = EXCLUDED.name
          LET c == CHOOSE c \in customers : c.email = b.email IN
          /\ BookingBudget
          /\ customers' = (customers \ {c}) \cup {[c EXCEPT !.name = b.name]}
          /\ req' = Take(r, [a EXCEPT !.pc = "insbook", !.cust = c.id, !.uc = {c.id}])
          /\ UNCHANGED custSeq
     ELSE /\ BookingBudget /\ CustomerBudget
          /\ customers' = customers \cup
                            {[id |-> custSeq, name |-> b.name, email |-> b.email]}
          /\ custSeq' = custSeq + 1
          /\ req' = Take(r, [a EXCEPT !.pc = "insbook", !.cust = custSeq,
                                      !.wc = {custSeq}])
  /\ UNCHANGED <<variant, mix, boot, parts, loyalty, now, bookings, bookSeq>>

\* lines 176-184: the QR code, the booking insert and the response;
\* QRCode.toDataURL is awaited in the handler's try block, so its rejection
\* (qrFails) lands in the catch block before the insert
Book013_Insert(r, qrFails) ==
  /\ variant = "part_013"
  /\ req[r].pc = "insbook"
  /\ LET b == req[r].body
         row == [id |-> bookSeq, customer_id |-> req[r].cust,
                 service_id |-> b.service_id, plate |-> NormalizePlate(variant, b.plate),
                 location |-> NoStr, postcode |-> NoStr, lat |-> b.lat, lng |-> b.lng,
                 date_time |-> NoStr, start_time |-> NoTime, end_time |-> NoTime, parts_used |-> NoStr, total_cost |-> NoCost, status |-> "Pending",
                 token |-> QRDataURL(<<"Booking", now, b.plate>>)] IN
     IF qrFails \/ BookingInsertFails(variant, row)
     THEN /\ req' = [req EXCEPT ![r] = Done(@, Failure(500))]
          /\ UNCHANGED <<bookings, bookSeq>>
     ELSE /\ bookings' = bookings \cup {row}
          /\ bookSeq' = bookSeq + 1
          /\ req' = [req EXCEPT ![r] = Done([@ EXCEPT !.wb = {row.id}], Success(row))]
  /\ UNCHANGED <<variant, mix, boot, parts, loyalty, now, customers, custSeq>>

-----------------------------------------------------------------------------
(* server.js, the second server of the file (lines 330-517):                *)
(* POST /book, POST /mechanic/start-job, POST /mechanic/complete-job        *)

BaseSrv ==
  [NoBody EXCEPT !.name = "Alice", !.email = "zoe@example.com", !.service_id = 1,
                 !.plate = PlateLower2, !.location = "10 High St"]

BodiesSrv ==
  CASE mix = "customers" ->
         { [BaseSrv EXCEPT !.name = n[1], !.service_id = n[2], !.email = e] :
             n \in {<<"Alice", 1>>, <<"Bob", 2>>}, e \in {"zoe@example.com", "alice@example.com"} }
    [] mix = "services" ->
         { [BaseSrv EXCEPT !.service_id = s] : s \in {NoId, 1, 999} }
    [] mix = "plates" ->
         { [BaseSrv EXCEPT !.plate = p] : p \in Plates \cup {NoSeq} }
    [] mix \in {"jobs", "parts"} -> { BaseSrv }
    [] OTHER -> {}

\* the booking ids the mechanic's requests name
JobIds == {1, 2, 99}

\* lines 438-443: SELECT * FROM customers WHERE email=$1
BookSrv_Select(r, b) ==
  /\ variant = "server_js"
  /\ Free(r)
  /\ BookingBudget
  /\ LET a == Accept(r, "book", b) IN
     IF EmailSeen(b.email) /\ b.email # NoStr
     THEN LET c == CHOOSE c \in customers : c.email = b.email IN
          req' = Take(r, [a EXCEPT !.pc = "insbook", !.cust = c.id])
     ELSE /\ CustomerBudget
          /\ req' = Take(r, [a EXCEPT !.pc = "inscust"])
  /\ UNCHANGED <<variant, mix, boot, parts, loyalty, now, customers, bookings, custSeq, bookSeq>>

\* lines 444-448: INSERT INTO customers ... RETURNING id
BookSrv_InsertCustomer(r) ==
  /\ variant = "server_js"
  /\ req[r].pc = "inscust"
  /\ LET b == req[r].body IN
     IF CustomerInsertFails(variant, b.name, b.email)
     THEN /\ req' = [req EXCEPT ![r] = Done(@, Failure(500))]
          /\ UNCHANGED <<customers, custSeq>>
     ELSE /\ customers' = customers \cup
                            {[id |-> custSeq, name |-> b.name, email |-> b.email]}
          /\ custSeq' = custSeq + 1
          /\ req' = [req EXCEPT ![r] = [@ EXCEPT !.pc = "insbook", !.cust = custSeq,
                                                 !.wc = {custSeq}]]
  /\ UNCHANGED <<variant, mix, boot, parts, loyalty, now, bookings, bookSeq>>

\* lines 453-462: INSERT INTO bookings ... RETURNING id, and the response;
\* vehicle_plate.toUpperCase() throws when the body has no vehicle_plate
BookSrv_InsertBooking(r) ==
  /\ variant = "server_js"
  /\ req[r].pc = "insbook"
  /\ LET b == req[r].body
         row == [id |-> bookSeq, customer_id |-> req[r].cust,
                 service_id |-> b.service_id,
                 plate |-> NormalizePlate(variant, b.plate),
                 location |-> b.location, postcode |-> NoStr, lat |-> NoStr, lng |-> NoStr, date_time |-> NoStr, start_time |-> NoTime, end_time |-> NoTime, parts_used |-> NoStr, total_cost |-> NoCost, status |-> "pending",
                 token |-> NoSeq] IN
     IF b.plate = NoSeq \/ BookingInsertFails(variant, row)
     THEN /\ req' = [req EXCEPT ![r] = Done(@, Failure(500))]
          /\ UNCHANGED <<bookings, bookSeq>>
     ELSE /\ bookings' = bookings \cup {row}
          /\ bookSeq' = bookSeq + 1
          /\ req' = [req EXCEPT ![r] = Done([@ EXCEPT !.wb = {row.id}], SuccessId(row))]
  /\ UNCHANGED <<variant, mix, boot, parts, loyalty, now, customers, custSeq>>

\* UPDATE bookings SET status = st WHERE id = id
SetStatus(id, st) ==
  {IF b.id = id THEN [b EXCEPT !.status = st] ELSE b : b \in bookings}

\* UPDATE ... SET status = st, start_time = NOW() WHERE id = id
StartJob(id, st) ==
  {IF b.id = id THEN [b EXCEPT !.status = st, !.start_time = now] ELSE b : b \in bookings}

\* UPDATE ... SET status = st, parts_used = pu, end_time = NOW() WHERE id = id
EndJob(id, st, pu) ==
  {IF b.id = id THEN [b EXCEPT !.status = st, !.end_time = now, !.parts_used = pu]
   ELSE b : b \in bookings}

\* lines 466-473: POST /mechanic/start-job
StartJobSrv(r, id) ==
  /\ variant = "server_js" /\ mix \in {"jobs", "parts"}
  /\ Free(r)
  /\ bookings' = SetStatus(id, "in-progress")
  /\ req' = Take(r, Done(Accept(r, "start", [NoBody EXCEPT !.id = id]), SuccessPlain))
  /\ UNCHANGED <<variant, mix, boot, parts, loyalty, now, customers, custSeq, bookSeq>>

\* the job_parts lists and labor the mechanic's requests carry
\* a part_name beyond the 100 characters of job_parts.part_name
LongPartName == "a part name of 101 characters"
GoodPart == [part_name |-> "brake pad", part_cost |-> 10, quantity |-> 2]
BadPart == [part_name |-> LongPartName, part_cost |-> 10, quantity |-> 1]

PartLists ==
  IF mix = "parts" THEN { << GoodPart >>, << GoodPart, BadPart >> }
  ELSE { << >>, << GoodPart >> }

\* INSERT INTO job_parts fails: no booking has the id (foreign key), or the
\* name does not fit VARCHAR(100)
PartInsertFails(id, p) ==
  \/ id \notin {b.id : b \in bookings}
  \/ p.part_name = LongPartName

\* the parts of ps that are inserted before the first INSERT that fails
RECURSIVE Inserted(_, _)
Inserted(id, ps) ==
  IF ps = << >> \/ PartInsertFails(id, Head(ps)) THEN << >>
  ELSE << Head(ps) >> \o Inserted(id, Tail(ps))

\* the rows of job_parts for the parts ps of booking id
PartRows(id, ps) ==
  [k \in 1..Len(ps) |-> [booking_id |-> id, part_name |-> ps[k].part_name,
                          part_cost |-> ps[k].part_cost, quantity |-> ps[k].quantity]]
Labors == {5}

\* parts.reduce((sum,p)=>sum + p.part_cost*p.quantity,0)
RECURSIVE PartsCost(_)
PartsCost(ps) ==
  IF ps = << >> THEN 0
  ELSE Head(ps).part_cost * Head(ps).quantity + PartsCost(Tail(ps))

\* lines 476-491: POST /mechanic/complete-job.  The UPDATE names a booking or
\* none; the INSERTs INTO job_parts follow one by one, with no transaction
\* around them, and the first that fails ends the handler in its catch block.
CompleteJobSrv(r, id, ps, labor) ==
  /\ variant = "server_js" /\ mix \in {"jobs", "parts"}
  /\ Free(r)
  /\ Len(parts) + Len(ps) <= MaxParts
  /\ LET a == Accept(r, "complete",
                     [NoBody EXCEPT !.id = id, !.parts = ps, !.labor = labor])
         total == PartsCost(ps) + labor IN
     /\ bookings' = {IF b.id = id
                     THEN [b EXCEPT !.status = "completed", !.total_cost = total]
                     ELSE b : b \in bookings}
     /\ parts' = parts \o PartRows(id, Inserted(id, ps))
     /\ IF Inserted(id, ps) # ps
        THEN req' = Take(r, Done(a, Failure(500)))
        ELSE req' = Take(r, Done(a, SuccessPlain))
  /\ UNCHANGED <<variant, mix, boot, loyalty, now, customers, custSeq, bookSeq>>

-----------------------------------------------------------------------------
(* part_014: POST /api/book *)

Base014 ==
  [NoBody EXCEPT !.name = "Alice", !.email = "zoe@example.com", !.service_id = 1,
                 !.plate = PlateLower2, !.location = "10 High St"]

Bodies014 ==
  CASE mix \in {"faults", "restart"} -> { Base014 }
    [] mix = "customers" ->
         { [Base014 EXCEPT !.name = n[1], !.service_id = n[2], !.email = e] :
             n \in {<<"Alice", 1>>, <<"Bob", 2>>}, e \in {"zoe@example.com", "alice@test.com"} }
           \cup { [Base014 EXCEPT !.name = NoStr] }
    [] mix = "services" ->
         { [Base014 EXCEPT !.service_id = s] : s \in {NoId, 1, 999} }
    [] OTHER -> {}

\* lines 140-151: the missing-field check and the customer insert
Book014_InsertCustomer(r, b) ==
  /\ variant = "part_014"
  /\ Free(r)
  /\ LET a == Accept(r, "book", b) IN
     IF b.name = NoStr \/ b.plate = NoSeq \/ b.service_id = NoId \/ b.location = NoStr
     THEN /\ req' = Take(r, Done(a, Failure(400)))
          /\ UNCHANGED <<customers, custSeq>>
     ELSE IF CustomerInsertFails(variant, b.name, b.email)
     THEN /\ req' = Take(r, Done(a, Failure(500)))
          /\ UNCHANGED <<customers, custSeq>>
     ELSE /\ BookingBudget /\ CustomerBudget
          /\ customers' = customers \cup
                            {[id |-> custSeq, name |-> b.name, email |-> b.email]}
          /\ custSeq' = custSeq + 1
          /\ req' = Take(r, [a EXCEPT !.pc = "insbook", !.cust = custSeq,
                                      !.wc = {custSeq}])
  /\ UNCHANGED <<variant, mix, boot, parts, loyalty, now, bookings, bookSeq>>

\* lines 153-167: generateQR, the booking insert and the response;
\* generateQR (lines 111-118) catches a rejection of QRCode.toDataURL
\* (qrFails) and returns null
Book014_InsertBooking(r, qrFails) ==
  /\ variant = "part_014"
  /\ req[r].pc = "insbook"
  /\ LET b == req[r].body
         row == [id |-> bookSeq, customer_id |-> req[r].cust,
                 service_id |-> b.service_id, plate |-> NormalizePlate(variant, b.plate),
                 location |-> b.location, postcode |-> NoStr, lat |-> NoStr, lng |-> NoStr, date_time |-> NoStr, start_time |-> NoTime, end_time |-> NoTime, parts_used |-> NoStr, total_cost |-> NoCost, status |-> "pending",
                 token |-> IF qrFails THEN NoSeq
                           ELSE QRDataURL(<<req[r].cust, b.service_id, now>>)] IN
     IF BookingInsertFails(variant, row)
     THEN /\ req' = [req EXCEPT ![r] = Done(@, Failure(500))]
          /\ UNCHANGED <<bookings, bookSeq>>
     ELSE /\ bookings' = bookings \cup {row}
          /\ bookSeq' = bookSeq + 1
          /\ req' = [req EXCEPT ![r] = Done([@ EXCEPT !.wb = {row.id}], Success(row))]
  /\ UNCHANGED <<variant, mix, boot, parts, loyalty, now, customers, custSeq>>

-----------------------------------------------------------------------------
(* part_015: POST /book *)

Base015 ==
  [NoBody EXCEPT !.customer_id = 1, !.service_id = 1, !.plate = PlateLower2,
                 !.location = "10 High St"]

Bodies015 ==
  CASE mix = "services" ->
         { [Base015 EXCEPT !.service_id = s] : s \in {NoId, 1, 999} }
    [] mix = "plates" ->
         { [Base015 EXCEPT !.plate = p, !.customer_id = c] :
             p \in {NoSeq, PlateLower2, PlateTwoSp}, c \in {1, 2} }
    [] mix = "coords" -> { WithCoords(Base015, c) : c \in Coords }
    [] OTHER -> {}

\* lines 87-105: the whole handler; the bookings table has no status column
Book015(r, b) ==
  /\ variant = "part_015"
  /\ Free(r)
  /\ LET a == Accept(r, "book", b)
         row == [id |-> bookSeq, customer_id |-> b.customer_id,
                 service_id |-> b.service_id, plate |-> NormalizePlate(variant, b.plate),
                 location |-> b.location, postcode |-> NoStr, lat |-> b.lat, lng |-> b.lng,
                 date_time |-> NoStr, start_time |-> NoTime, end_time |-> NoTime, parts_used |-> NoStr, total_cost |-> NoCost, status |-> NoStr,
                 token |-> QRDataURL(<<b.customer_id, b.service_id, now>>)] IN
     IF b.customer_id = NoId \/ b.service_id = NoId \/ b.plate = NoSeq
          \/ b.location = NoStr
     THEN /\ req' = Take(r, Done(a, Failure(400)))
          /\ UNCHANGED <<bookings, bookSeq>>
     ELSE IF BookingInsertFails(variant, row)
     THEN /\ req' = Take(r, Done(a, Failure(500)))
          /\ UNCHANGED <<bookings, bookSeq>>
     ELSE /\ BookingBudget
          /\ bookings' = bookings \cup {row}
          /\ bookSeq' = bookSeq + 1
          /\ req' = Take(r, Done([a EXCEPT !.wb = {row.id}],
                                 [NoResp EXCEPT !.code = 200, !.ok = TRUE,
                                                !.token = row.token]))
  /\ UNCHANGED <<variant, mix, boot, parts, loyalty, now, customers, custSeq>>

-----------------------------------------------------------------------------
(* part_003, the second server of the file (lines 92-286): POST /bookings *)

Base003 ==
  [NoBody EXCEPT !.customer_id = 1, !.service_id = 1, !.plate = PlateLower2,
                 !.location = "10 High St"]

Bodies003 ==
  CASE mix = "tokens" ->
         { Base003, [Base003 EXCEPT !.customer_id = 2], [Base003 EXCEPT !.plate = NoSeq] }
    [] OTHER -> {}

\* the values generateQR() returns to the requests of a behaviour: the token
\* of the last seeded booking, and two that no seeded booking carries
Draws(v) ==
  LET n == Cardinality(SeedBookings(v)) IN {n, n + 1, n + 2}

\* lines 233-250: the whole handler, generateQR() returning HexToken(d)
Book003(r, b, d) ==
  /\ variant = "part_003"
  /\ Free(r)
  /\ LET a == Accept(r, "book", b)
         row == [id |-> bookSeq, customer_id |-> b.customer_id,
                 service_id |-> b.service_id, plate |-> NormalizePlate(variant, b.plate),
                 location |-> b.location, postcode |-> NoStr, lat |-> NoStr, lng |-> NoStr, date_time |-> NoStr, start_time |-> NoTime, end_time |-> NoTime, parts_used |-> NoStr, total_cost |-> NoCost, status |-> "Pending",
                 token |-> HexToken(d)] IN
     IF b.customer_id = NoId \/ b.plate = NoSeq \/ b.service_id = NoId
          \/ b.location = NoStr
     THEN /\ req' = Take(r, Done(a, Failure(400)))
          /\ UNCHANGED <<bookings, bookSeq>>
     ELSE IF BookingInsertFails(variant, row)
     THEN /\ req' = Take(r, Done(a, Failure(500)))
          /\ UNCHANGED <<bookings, bookSeq>>
     ELSE /\ BookingBudget
          /\ bookings' = bookings \cup {row}
          /\ bookSeq' = bookSeq + 1
          /\ req' = Take(r, Done([a EXCEPT !.wb = {row.id}], Success(row)))
  /\ UNCHANGED <<variant, mix, boot, parts, loyalty, now, customers, custSeq>>

-----------------------------------------------------------------------------
(* part_005: POST /bookings *)

Base005 == [NoBody EXCEPT !.customer_id = 1, !.service_id = 1, !.location = "London"]

Bodies005 ==
  CASE mix = "fields" ->
         { Base005, NoBody, [Base005 EXCEPT !.customer_id = NoId],
           [Base005 EXCEPT !.customer_id = 99], [Base005 EXCEPT !.service_id = NoId],
           [Base005 EXCEPT !.service_id = 999], [Base005 EXCEPT !.location = NoStr] }
    [] OTHER -> {}

\* lines 164-177: the whole handler
Book005(r, b) ==
  /\ variant = "part_005"
  /\ Free(r)
  /\ LET a == Accept(r, "book", b)
         row == [id |-> bookSeq, customer_id |-> b.customer_id,
                 service_id |-> b.service_id, plate |-> NoSeq,
                 location |-> b.location, postcode |-> NoStr,
                 lat |-> NoStr, lng |-> NoStr, date_time |-> NoStr, start_time |-> NoTime, end_time |-> NoTime, parts_used |-> NoStr, total_cost |-> NoCost, status |-> "pending", token |-> NoSeq] IN
     IF BookingInsertFails(variant, row)
     THEN /\ req' = Take(r, Done(a, Failure(500)))
          /\ UNCHANGED <<bookings, bookSeq>>
     ELSE /\ BookingBudget
          /\ bookings' = bookings \cup {row}
          /\ bookSeq' = bookSeq + 1
          /\ req' = Take(r, Done([a EXCEPT !.wb = {row.id}], Success(row)))
  /\ UNCHANGED <<variant, mix, boot, parts, loyalty, now, customers, custSeq>>

-----------------------------------------------------------------------------
(* part_016: POST /api/bookings *)

Base016 ==
  [NoBody EXCEPT !.customer_id = 1, !.service_id = 1, !.location = "10 High St",
                 !.postcode = "ME1 1AA", !.plate = PlateLower2]

Bodies016 ==
  CASE mix = "faults" -> { Base016 }
    [] mix = "fields" ->
         { Base016, [Base016 EXCEPT !.customer_id = NoId],
           [Base016 EXCEPT !.service_id = NoId], [Base016 EXCEPT !.service_id = 999],
           [Base016 EXCEPT !.location = NoStr], [Base016 EXCEPT !.postcode = NoStr],
           [Base016 EXCEPT !.plate = NoSeq] }
    [] OTHER -> {}

\* lines 129-134: the booking insert; a failure is answered with
\* res.json({success:false}), which is an HTTP 200
Book016_Insert(r, b) ==
  /\ variant = "part_016"
  /\ Free(r)
  /\ LET a == Accept(r, "book", b)
         row == [id |-> bookSeq, customer_id |-> b.customer_id,
                 service_id |-> b.service_id, plate |-> NormalizePlate(variant, b.plate),
                 location |-> b.location, postcode |-> b.postcode,
                 lat |-> NoStr, lng |-> NoStr, date_time |-> NoStr, start_time |-> NoTime, end_time |-> NoTime, parts_used |-> NoStr, total_cost |-> NoCost, status |-> "pending", token |-> NoSeq] IN
     IF BookingInsertFails(variant, row)
     THEN /\ req' = Take(r, Done(a, Failure(200)))
          /\ UNCHANGED <<bookings, bookSeq>>
     ELSE /\ BookingBudget
          /\ bookings' = bookings \cup {row}
          /\ bookSeq' = bookSeq + 1
          /\ req' = Take(r, [a EXCEPT !.pc = "insqr", !.wb = {row.id}])
  /\ UNCHANGED <<variant, mix, boot, parts, loyalty, now, customers, custSeq>>

\* lines 135-142: the QR code of `booking:${id}`, INSERT INTO qr_codes, and
\* the response; a rejected INSERT lands in the catch block.  The row of
\* qr_codes is kept as the token of its booking.
Book016_InsertQR(r, fault) ==
  /\ variant = "part_016"
  /\ req[r].pc = "insqr"
  /\ LET id == CHOOSE x \in req[r].wb : TRUE
         old == CHOOSE b \in bookings : b.id = id
         row == [old EXCEPT !.token = QRDataURL(<<"booking", id>>)] IN
     IF fault
     THEN /\ req' = [req EXCEPT ![r] = Done(@, Failure(200))]
          /\ UNCHANGED bookings
     ELSE /\ bookings' = (bookings \ {old}) \cup {row}
          /\ req' = [req EXCEPT ![r] = Done(@, Success(row))]
  /\ UNCHANGED <<variant, mix, boot, parts, loyalty, now, customers, custSeq, bookSeq>>

-----------------------------------------------------------------------------
(* part_001: POST /api/customers, POST /api/bookings *)

\* postcode: /^[A-Z]{1,2}\d[A-Z\d]? ?\d[A-Z]{2}$/i, on the postcodes the
\* requests carry
PostcodeInputs == {"ME1 1AA", "me11aa", "12345"}
PostcodePattern(pc) == pc \in {"ME1 1AA", "me11aa"}

\* reg_plate: /^[A-Z]{2}\d{2} [A-Z]{3}$/
RegPlatePattern(s) ==
  /\ Len(s) = 8
  /\ \A i \in {1, 2, 6, 7, 8} : s[i] \in UpperLetters
  /\ \A i \in {3, 4} : s[i] \in Digits
  /\ s[5] = Space

PlateUpper == <<"A","B","1","2"," ","C","D","E">>

CustomerBodies001 ==
  { [NoBody EXCEPT !.name = "Alice", !.email = "zoe@example.com",
                   !.plate = p, !.location = "10 High St"] :
      p \in {PlateUpper, PlateLower2, NoSeq} }

\* lines 125-139: customerSchema, then the customer insert
Customer001(r, b) ==
  /\ variant = "part_001"
  /\ Free(r)
  /\ LET a == Accept(r, "register", b) IN
     IF b.name = NoStr \/ b.email = NoStr \/ b.plate = NoSeq \/ b.location = NoStr
          \/ ~RegPlatePattern(b.plate)
     THEN /\ req' = Take(r, Done(a, Failure(400)))
          /\ UNCHANGED <<customers, custSeq>>
     ELSE IF CustomerInsertFails(variant, b.name, b.email)
     THEN /\ req' = Take(r, Done(a, Failure(500)))
          /\ UNCHANGED <<customers, custSeq>>
     ELSE /\ CustomerBudget
          /\ customers' = customers \cup
                            {[id |-> custSeq, name |-> b.name, email |-> b.email]}
          /\ custSeq' = custSeq + 1
          /\ req' = Take(r, Done([a EXCEPT !.cust = custSeq, !.wc = {custSeq}],
                                 SuccessPlain))
  /\ UNCHANGED <<variant, mix, boot, parts, loyalty, now, bookings, bookSeq>>

Base001 ==
  [NoBody EXCEPT !.customer_id = 1, !.service_id = 1, !.location = "10 High St",
                 !.postcode = "ME1 1AA"]

Bodies001 ==
  CASE mix = "fields" ->
         { Base001, [Base001 EXCEPT !.customer_id = NoId],
           [Base001 EXCEPT !.service_id = NoId], [Base001 EXCEPT !.service_id = 999],
           [Base001 EXCEPT !.location = NoStr], [Base001 EXCEPT !.postcode = NoStr],
           [Base001 EXCEPT !.postcode = "12345"] }
    [] OTHER -> {}

\* lines 141-158: bookingSchema, the QR code, the booking insert
Book001(r, b) ==
  /\ variant = "part_001"
  /\ Free(r)
  /\ LET a == Accept(r, "book", b)
         row == [id |-> bookSeq, customer_id |-> b.customer_id,
                 service_id |-> b.service_id, plate |-> NoSeq,
                 location |-> b.location, postcode |-> b.postcode,
                 lat |-> NoStr, lng |-> NoStr, date_time |-> NoStr, start_time |-> NoTime, end_time |-> NoTime, parts_used |-> NoStr, total_cost |-> NoCost, status |-> "pending",
                 token |-> QRDataURL(<<"booking", b.customer_id, b.service_id, now>>)] IN
     IF b.customer_id = NoId \/ b.service_id = NoId \/ b.location = NoStr
          \/ b.postcode = NoStr \/ ~PostcodePattern(b.postcode)
     THEN /\ req' = Take(r, Done(a, Failure(400)))
          /\ UNCHANGED <<bookings, bookSeq>>
     ELSE IF BookingInsertFails(variant, row)
     THEN /\ req' = Take(r, Done(a, Failure(500)))
          /\ UNCHANGED <<bookings, bookSeq>>
     ELSE /\ BookingBudget
          /\ bookings' = bookings \cup {row}
          /\ bookSeq' = bookSeq + 1
          /\ req' = Take(r, Done([a EXCEPT !.wb = {row.id}], Success(row)))
  /\ UNCHANGED <<variant, mix, boot, parts, loyalty, now, customers, custSeq>>

-----------------------------------------------------------------------------
(* part_006: POST /bookings, /bookings/:id/start, /complete, /override *)

Bodies006 ==
  { [NoBody EXCEPT !.name = "Alice", !.plate = p, !.location = "10 High St"] :
      p \in {PlateLower2, NoSeq} }

\* lines 74-88: the whole handler, generateQR() returning HexToken(d)
Book006(r, b, d) ==
  /\ variant = "part_006" /\ mix \in {"tokens", "backfill"}
  /\ Free(r)
  /\ LET a == Accept(r, "book", b)
         row == [id |-> bookSeq, customer_id |-> NoId, service_id |-> NoId,
                 plate |-> NormalizePlate(variant, b.plate), location |-> b.location,
                 postcode |-> NoStr, lat |-> NoStr, lng |-> NoStr, date_time |-> NoStr, start_time |-> NoTime, end_time |-> NoTime, parts_used |-> NoStr, total_cost |-> NoCost, status |-> "pending",
                 token |-> HexToken(d)] IN
     IF b.plate = NoSeq \/ BookingInsertFails(variant, row)
     THEN /\ req' = Take(r, Done(a, Failure(500)))
          /\ UNCHANGED <<bookings, bookSeq>>
     ELSE /\ BookingBudget
          /\ bookings' = bookings \cup {row}
          /\ bookSeq' = bookSeq + 1
          /\ req' = Take(r, Done([a EXCEPT !.wb = {row.id}], Success(row)))
  /\ UNCHANGED <<variant, mix, boot, parts, loyalty, now, customers, custSeq>>

\* lines 105-114: UPDATE bookings SET status='in-progress' WHERE id=$1
Start006(r, id) ==
  /\ variant = "part_006" /\ mix = "jobs"
  /\ Free(r)
  /\ bookings' = StartJob(id, "in-progress")
  /\ req' = Take(r, Done(Accept(r, "start", [NoBody EXCEPT !.id = id]), SuccessPlain))
  /\ UNCHANGED <<variant, mix, boot, parts, loyalty, now, customers, custSeq, bookSeq>>

\* lines 116-129: UPDATE bookings SET status='completed', end_time=NOW(),
\* parts = parts || 'N/A' ... WHERE id=$3
Complete006(r, id) ==
  /\ variant = "part_006" /\ mix = "jobs"
  /\ Free(r)
  /\ bookings' = EndJob(id, "completed", "N/A")
  /\ req' = Take(r, Done(Accept(r, "complete", [NoBody EXCEPT !.id = id]), SuccessPlain))
  /\ UNCHANGED <<variant, mix, boot, parts, loyalty, now, customers, custSeq, bookSeq>>

\* lines 21-23: SELECT id FROM bookings WHERE qr_code IS NULL
InitQRCodes_Select ==
  /\ variant = "part_006"
  /\ boot.pc = "select"
  /\ LET ids == {b.id : b \in {x \in bookings : x.token = NoSeq}} IN
     boot' = IF ids = {} THEN Up ELSE [pc |-> "update", todo |-> ids]
  /\ UNCHANGED <<variant, mix, now, customers, bookings, custSeq, bookSeq, parts,
                 loyalty, req>>

\* lines 24-32: one turn of the loop, for the row id (the SELECT has no ORDER
\* BY) and the code HexToken(d); a code that another row holds violates the
\* UNIQUE constraint, and the catch block around the loop ends the back-fill
InitQRCodes_Update(id, d) ==
  /\ variant = "part_006"
  /\ boot.pc = "update"
  /\ id \in boot.todo
  /\ IF \E x \in bookings : x.id # id /\ x.token = HexToken(d)
     THEN /\ boot' = Up
          /\ UNCHANGED bookings
     ELSE /\ bookings' = {IF x.id = id THEN [x EXCEPT !.token = HexToken(d)] ELSE x :
                            x \in bookings}
          /\ boot' = IF boot.todo = {id} THEN Up
                     ELSE [boot EXCEPT !.todo = @ \ {id}]
  /\ UNCHANGED <<variant, mix, now, customers, custSeq, bookSeq, parts, loyalty, req>>

OverrideCodes == {NoStr, "1234"}

\* the override without its check of the code
Override006_NoCheck(r, id, code) ==
  /\ variant = "part_006" /\ mix = "jobs"
  /\ Free(r)
  /\ bookings' = StartJob(id, "in-progress")
  /\ req' = Take(r, Done(Accept(r, "override", [NoBody EXCEPT !.id = id, !.code = code]),
                         SuccessPlain))
  /\ UNCHANGED <<variant, mix, boot, parts, loyalty, now, customers, custSeq, bookSeq>>

\* lines 131-145: the override; any code at all passes the check
Override006(r, id, code) ==
  /\ variant = "part_006" /\ mix = "jobs"
  /\ Free(r)
  /\ LET a == Accept(r, "override", [NoBody EXCEPT !.id = id, !.code = code]) IN
     IF code = NoStr
     THEN /\ req' = Take(r, Done(a, Failure(400)))
          /\ UNCHANGED bookings
     ELSE /\ bookings' = StartJob(id, "in-progress")
          /\ req' = Take(r, Done(a, SuccessPlain))
  /\ UNCHANGED <<variant, mix, boot, parts, loyalty, now, customers, custSeq, bookSeq>>

-----------------------------------------------------------------------------
(* part_008: POST /register, POST /book, POST /mechanic/job/start,          *)
(* POST /mechanic/job/complete.  The requests carry a valid token of the    *)
(* role the route asks for.                                                 *)

\* lines 46-59: the customer insert
Register008(r, b) ==
  /\ variant = "part_008" /\ mix # "tickets"
  /\ Free(r)
  /\ LET a == Accept(r, "register", b) IN
     IF CustomerInsertFails(variant, b.name, b.email)
     THEN /\ req' = Take(r, Done(a, Failure(500)))
          /\ UNCHANGED <<customers, custSeq>>
     ELSE /\ CustomerBudget
          /\ customers' = customers \cup
                            {[id |-> custSeq, name |-> b.name, email |-> b.email]}
          /\ custSeq' = custSeq + 1
          /\ req' = Take(r, Done([a EXCEPT !.cust = custSeq, !.wc = {custSeq}],
                                 SuccessPlain))
  /\ UNCHANGED <<variant, mix, boot, parts, loyalty, now, bookings, bookSeq>>

RegisterBodies008 == { [NoBody EXCEPT !.name = "Alice", !.email = "zoe@example.com"] }

\* date_time of the booking requests
DateTime008 == "2026-01-10T09:00"

Base008 == [NoBody EXCEPT !.customer_id = 1, !.service_id = 1, !.plate = PlateLower2]

Bodies008 ==
  CASE mix = "plates" ->
         { [Base008 EXCEPT !.plate = p] : p \in {NoSeq, PlateLower2, PlateTwoSp, PlateSplit} }
    [] mix = "jobs" -> { Base008 }
    [] OTHER -> {}

\* Math.random().toString(36).substring(2, 8).toUpperCase(), for the n-th
\* value of the generator
CheckValue(n) == <<"check", n>>

\* lines 89-103: vehicle_plate.toUpperCase() runs before the try block: with
\* no vehicle_plate the handler throws and the request is never answered
Book008(r, b, d) ==
  /\ variant = "part_008"
  /\ Free(r)
  /\ LET a == Accept(r, "book", b)
         row == [id |-> bookSeq, customer_id |-> b.customer_id,
                 service_id |-> b.service_id,
                 plate |-> NormalizePlate(variant, b.plate), location |-> NoStr,
                 postcode |-> NoStr, lat |-> NoStr, lng |-> NoStr, date_time |-> DateTime008, start_time |-> NoTime, end_time |-> NoTime, parts_used |-> NoStr, total_cost |-> NoCost, status |-> "pending",
                 token |-> CheckValue(d)] IN
     IF b.plate = NoSeq
     THEN /\ req' = Take(r, [a EXCEPT !.pc = "hung"])
          /\ UNCHANGED <<bookings, bookSeq>>
     ELSE IF BookingInsertFails(variant, row)
     THEN /\ req' = Take(r, Done(a, Failure(500)))
          /\ UNCHANGED <<bookings, bookSeq>>
     ELSE /\ BookingBudget
          /\ bookings' = bookings \cup {row}
          /\ bookSeq' = bookSeq + 1
          /\ req' = Take(r, Done([a EXCEPT !.wb = {row.id}], Success(row)))
  /\ UNCHANGED <<variant, mix, boot, parts, loyalty, now, customers, custSeq>>

\* lines 116-124: UPDATE jobs SET status='in_progress' ... RETURNING *
Start008(r, id) ==
  /\ variant = "part_008" /\ mix \in {"jobs", "tickets"}
  /\ Free(r)
  /\ bookings' = StartJob(id, "in_progress")
  /\ req' = Take(r, Done(Accept(r, "start", [NoBody EXCEPT !.id = id]), SuccessPlain))
  /\ UNCHANGED <<variant, mix, boot, parts, loyalty, now, customers, custSeq, bookSeq>>

Visits(c) ==
  IF \E l \in loyalty : l.customer_id = c
  THEN (CHOOSE l \in loyalty : l.customer_id = c).visits
  ELSE 0

\* parts_used of the mechanic's complete request
PartsUsed008 == "brake pads"

\* lines 127-133: the status update; job.rows[0] is undefined when no job has
\* the id, and reading its customer_id throws into the catch block
Complete008(r, id) ==
  /\ variant = "part_008" /\ mix \in {"jobs", "tickets"}
  /\ Free(r)
  /\ LET a == Accept(r, "complete", [NoBody EXCEPT !.id = id]) IN
     /\ bookings' = EndJob(id, "completed", PartsUsed008)
     /\ IF id \notin {b.id : b \in bookings}
        THEN req' = Take(r, Done(a, Failure(500)))
        ELSE LET job == CHOOSE b \in bookings : b.id = id
                 c == job.customer_id IN
             /\ Visits(c) + InFlight({"upsert"}) < MaxVisits
             /\ req' = Take(r, [a EXCEPT !.pc = "upsert", !.cust = c,
                                         !.redo = (job.status = "completed")])
  /\ UNCHANGED <<variant, mix, boot, parts, loyalty, now, customers, custSeq, bookSeq>>

\* INSERT INTO customer_loyalty without the ON CONFLICT clause, on a table
\* that lets it through: the old row stays beside the new one
LoyaltyInsert(c) == loyalty \cup {[customer_id |-> c, visits |-> Visits(c) + 1]}

\* lines 134-138: INSERT ... ON CONFLICT (customer_id) DO UPDATE SET
\* visits = customer_loyalty.visits + 1, one statement of the store
LoyaltyUpsert(c) ==
  {l \in loyalty : l.customer_id # c} \cup {[customer_id |-> c, visits |-> Visits(c) + 1]}

\* lines 134-141: the loyalty upsert and the response
Loyalty008(r) ==
  /\ variant = "part_008"
  /\ req[r].pc = "upsert"
  /\ loyalty' = LoyaltyUpsert(req[r].cust)
  /\ req' = [req EXCEPT ![r] = Done(@, SuccessPlain)]
  /\ UNCHANGED <<variant, mix, boot, parts, now, customers, bookings, custSeq, bookSeq>>

\* what the Authorization header of a request holds: nothing, a token that
\* jwt.verify rejects, or a valid token of the role
Callers == {"none", "invalid", "customer", "mechanic"}

\* lines 27-41, auth(): 401 without a token or with one that does not verify
Authorized(caller) == caller \in {"customer", "mechanic"}

\* the ticket with the mechanic's fields for every role
TicketOf_Leaky(job, role) ==
  <<"ticket", job.id, job.service_id, job.date_time, job.token,
    job.parts_used, job.start_time, job.end_time>>

\* lines 155-166: jobRef, service_id, date, checkValue, and for the mechanic
\* partsUsed, startTime, endTime
TicketOf(job, role) ==
  IF role = "mechanic"
  THEN <<"ticket", job.id, job.service_id, job.date_time, job.token,
         job.parts_used, job.start_time, job.end_time>>
  ELSE <<"ticket", job.id, job.service_id, job.date_time, job.token>>

\* the job ids the ticket requests name
TicketIds == {1, 99}

\* lines 147-173: GET /job/:id/ticket
GetTicket008(r, id, caller) ==
  /\ variant = "part_008" /\ mix = "tickets"
  /\ Free(r)
  /\ LET a == Accept(r, "ticket", [NoBody EXCEPT !.id = id, !.caller = caller]) IN
     IF ~Authorized(caller)
     THEN req' = Take(r, Done(a, Failure(401)))
     ELSE IF id \notin {b.id : b \in bookings}
     THEN req' = Take(r, Done(a, Failure(404)))
     ELSE LET job == CHOOSE b \in bookings : b.id = id IN
          req' = Take(r, Done(a, [NoResp EXCEPT !.code = 200, !.ok = TRUE,
                                                !.token = TicketOf(job, caller)]))
  /\ UNCHANGED <<variant, mix, boot, parts, loyalty, now, customers, bookings, custSeq,
                 bookSeq>>

-----------------------------------------------------------------------------
(* part_010, the second server of the file (lines 73-146): POST /bookings.  *)
(* The file creates no table with the columns this server writes.           *)

\* the bookings table of this server: columns name, email, phone, vehicle,
\* service, location, qr_code, none of them constrained
InsertFails010(row) == FALSE

\* a name too long for the text of a QR symbol
LongName == "a name of 3000 characters"

\* QRCode.toDataURL rejects a text beyond the capacity of the largest symbol;
\* of the text <<"Booking ID", id, name, vehicle>> only the name can be so long
QRTooBig(text) == text[3] = LongName

Base010 ==
  [NoBody EXCEPT !.name = "Alice", !.email = "zoe@example.com",
                 !.plate = PlateLower2, !.location = "10 High St"]

Bodies010 ==
  CASE mix = "faults" ->
         { Base010, [Base010 EXCEPT !.name = LongName], [Base010 EXCEPT !.name = NoStr] }
    [] OTHER -> {}

\* lines 119-130: the missing-field check (answered with HTTP 200) and the
\* booking insert
Book010_Insert(r, b) ==
  /\ variant = "part_010"
  /\ Free(r)
  /\ LET a == Accept(r, "book", b)
         row == [id |-> bookSeq, customer_id |-> NoId, service_id |-> NoId,
                 plate |-> b.plate, location |-> b.location, postcode |-> NoStr,
                 lat |-> NoStr, lng |-> NoStr, date_time |-> NoStr, start_time |-> NoTime, end_time |-> NoTime, parts_used |-> NoStr, total_cost |-> NoCost, status |-> NoStr, token |-> NoSeq] IN
     IF b.name = NoStr \/ b.email = NoStr \/ b.plate = NoSeq \/ b.location = NoStr
          \/ InsertFails010(row)
     THEN /\ req' = Take(r, Done(a, Failure(200)))
          /\ UNCHANGED <<bookings, bookSeq>>
     ELSE /\ BookingBudget
          /\ bookings' = bookings \cup {row}
          /\ bookSeq' = bookSeq + 1
          /\ req' = Take(r, [a EXCEPT !.pc = "insqr", !.wb = {row.id}])
  /\ UNCHANGED <<variant, mix, boot, parts, loyalty, now, customers, custSeq>>

\* lines 132-141: the QR code of the booking's id, name and vehicle, the
\* UPDATE that stores it, and the response; an error of the encoding or of
\* the UPDATE lands in the catch block
Book010_AttachToken(r, fault) ==
  /\ variant = "part_010"
  /\ req[r].pc = "insqr"
  /\ LET id == CHOOSE x \in req[r].wb : TRUE
         old == CHOOSE b \in bookings : b.id = id
         text == <<"Booking ID", id, req[r].body.name, req[r].body.plate>>
         row == [old EXCEPT !.token = QRDataURL(text)] IN
     IF QRTooBig(text) \/ fault
     THEN /\ req' = [req EXCEPT ![r] = Done(@, Failure(200))]
          /\ UNCHANGED bookings
     ELSE /\ bookings' = (bookings \ {old}) \cup {row}
          /\ req' = [req EXCEPT ![r] = Done(@, Success(row))]
  /\ UNCHANGED <<variant, mix, boot, parts, loyalty, now, customers, custSeq, bookSeq>>

-----------------------------------------------------------------------------
(* The listing routes of part_013 and part_002.                             *)

Routes == {"services", "bookings"}

\* part_013 lines 160-163 and 187-196: the SELECT is awaited outside any try
\* block; when the store rejects it, the handler's promise rejects, which
\* Express 4 does not observe, and no response is ever sent
GetList013(r, route, fault) ==
  /\ variant = "part_013" /\ mix = "faults"
  /\ Free(r)
  /\ LET a == Accept(r, route, NoBody) IN
     IF fault
     THEN req' = Take(r, [a EXCEPT !.pc = "hung"])
     ELSE req' = Take(r, Done(a, SuccessPlain))
  /\ UNCHANGED <<variant, mix, boot, parts, loyalty, now, customers, bookings, custSeq,
                 bookSeq>>

\* part_002 lines 178-187: dbQuery (lines 22-30) releases the client and lets
\* the rejection through, and the handlers have no try block either
GetList002(r, route, fault) ==
  /\ variant = "part_002"
  /\ Free(r)
  /\ LET a == Accept(r, route, NoBody) IN
     IF fault
     THEN req' = Take(r, [a EXCEPT !.pc = "hung"])
     ELSE req' = Take(r, Done(a, SuccessPlain))
  /\ UNCHANGED <<variant, mix, boot, parts, loyalty, now, customers, bookings, custSeq,
                 bookSeq>>

-----------------------------------------------------------------------------
(* part_017: POST /api/book *)

Base017 ==
  [NoBody EXCEPT !.customer_id = 1, !.service_id = 1, !.lat = "51.34", !.lng = "0.56"]

Bodies017 ==
  CASE mix = "fields" ->
         { Base017, [Base017 EXCEPT !.customer_id = 2], [Base017 EXCEPT !.customer_id = NoId],
           [Base017 EXCEPT !.service_id = 999], [Base017 EXCEPT !.lat = NoStr] }
    [] mix = "coords" -> { WithCoords(Base017, c) : c \in Coords }
    [] OTHER -> {}

\* lines 142-158: the whole handler; the QR code encodes
\* `${customer_id}-${service_id}-${Date.now()}`, and the response is the row
\* that INSERT ... RETURNING * gives back
Book017(r, b) ==
  /\ variant = "part_017"
  /\ Free(r)
  /\ LET a == Accept(r, "book", b)
         row == [id |-> bookSeq, customer_id |-> b.customer_id,
                 service_id |-> b.service_id, plate |-> NoSeq,
                 location |-> NoStr, postcode |-> NoStr, lat |-> b.lat, lng |-> b.lng,
                 date_time |-> NoStr, start_time |-> NoTime, end_time |-> NoTime, parts_used |-> NoStr, total_cost |-> NoCost, status |-> "pending",
                 token |-> QRDataURL(<<b.customer_id, b.service_id, now>>)] IN
     IF b.customer_id = NoId \/ b.service_id = NoId \/ b.lat = NoStr \/ b.lng = NoStr
     THEN /\ req' = Take(r, Done(a, Failure(400)))
          /\ UNCHANGED <<bookings, bookSeq>>
     ELSE IF BookingInsertFails(variant, row)
     THEN /\ req' = Take(r, Done(a, Failure(500)))
          /\ UNCHANGED <<bookings, bookSeq>>
     ELSE /\ BookingBudget
          /\ bookings' = bookings \cup {row}
          /\ bookSeq' = bookSeq + 1
          /\ req' = Take(r, Done([a EXCEPT !.wb = {row.id}], Success(row)))
  /\ UNCHANGED <<variant, mix, boot, parts, loyalty, now, customers, custSeq>>

\* the process dies while handlers wait between the INSERT (line 126) and
\* the UPDATE (line 136), and is started again: the calls in flight are never
\* answered, and the start-up (lines 143-144) only listens, it reads and
\* writes no row
Crash010 ==
  /\ variant = "part_010"
  /\ \E r \in Reqs : req[r].pc = "insqr"
  /\ req' = [r \in Reqs |->
               IF req[r].pc = "insqr" THEN [req[r] EXCEPT !.pc = "crashed"] ELSE req[r]]
  /\ boot' = Up
  /\ UNCHANGED <<variant, mix, now, customers, bookings, custSeq, bookSeq, parts,
                 loyalty>>

-----------------------------------------------------------------------------
(* server.js, the first server of the file (lines 1-329): POST /api/bookings *)

BaseA ==
  [NoBody EXCEPT !.customer_id = 1, !.service_id = 1, !.plate = PlateLower2,
                 !.location = "10 High St"]

BodiesA ==
  CASE mix = "restart" -> { BaseA }
    [] mix = "fields" ->
         { BaseA, [BaseA EXCEPT !.customer_id = NoId], [BaseA EXCEPT !.customer_id = 99],
           [BaseA EXCEPT !.service_id = 999], [BaseA EXCEPT !.plate = NoSeq],
           [BaseA EXCEPT !.plate = PlateTwoSp] }
    [] OTHER -> {}

\* res.json({ success: true, qr }): the response carries the QR code only
SuccessQR(row) == [NoResp EXCEPT !.code = 200, !.ok = TRUE, !.token = row.token]

\* the handler as it would be with the INSERT left unawaited: the response
\* is sent whatever becomes of the insert
BookA_Unawaited(r, b) ==
  /\ variant = "server_a"
  /\ Free(r)
  /\ LET a == Accept(r, "book", b)
         row == [id |-> bookSeq, customer_id |-> b.customer_id,
                 service_id |-> b.service_id,
                 plate |-> NormalizePlate(variant, b.plate),
                 location |-> b.location, postcode |-> NoStr, lat |-> NoStr, lng |-> NoStr, date_time |-> NoStr, start_time |-> NoTime, end_time |-> NoTime, parts_used |-> NoStr, total_cost |-> NoCost,
                 status |-> "pending", token |-> QRDataURL(ToUpperCase(b.plate))] IN
     IF b.customer_id = NoId \/ b.service_id = NoId \/ b.plate = NoSeq
     THEN /\ req' = Take(r, Done(a, Failure(400)))
          /\ UNCHANGED <<bookings, bookSeq>>
     ELSE IF BookingInsertFails(variant, row)
     THEN /\ req' = Take(r, Done(a, SuccessQR(row)))
          /\ UNCHANGED <<bookings, bookSeq>>
     ELSE /\ BookingBudget
          /\ bookings' = bookings \cup {row}
          /\ bookSeq' = bookSeq + 1
          /\ req' = Take(r, Done([a EXCEPT !.wb = {row.id}], SuccessQR(row)))
  /\ UNCHANGED <<variant, mix, boot, parts, loyalty, now, customers, custSeq>>

\* lines 288-302: the whole handler
BookA(r, b) ==
  /\ variant = "server_a"
  /\ Free(r)
  /\ LET a == Accept(r, "book", b)
         row == [id |-> bookSeq, customer_id |-> b.customer_id,
                 service_id |-> b.service_id,
                 plate |-> NormalizePlate(variant, b.plate),
                 location |-> b.location, postcode |-> NoStr, lat |-> NoStr, lng |-> NoStr, date_time |-> NoStr, start_time |-> NoTime, end_time |-> NoTime, parts_used |-> NoStr, total_cost |-> NoCost,
                 status |-> "pending", token |-> QRDataURL(ToUpperCase(b.plate))] IN
     IF b.customer_id = NoId \/ b.service_id = NoId \/ b.plate = NoSeq
     THEN /\ req' = Take(r, Done(a, Failure(400)))
          /\ UNCHANGED <<bookings, bookSeq>>
     ELSE IF BookingInsertFails(variant, row)
     THEN /\ req' = Take(r, Done(a, Failure(500)))
          /\ UNCHANGED <<bookings, bookSeq>>
     ELSE /\ BookingBudget
          /\ bookings' = bookings \cup {row}
          /\ bookSeq' = bookSeq + 1
          /\ req' = Take(r, Done([a EXCEPT !.wb = {row.id}], SuccessQR(row)))
  /\ UNCHANGED <<variant, mix, boot, parts, loyalty, now, customers, custSeq>>

-----------------------------------------------------------------------------
Next ==
  \/ Tick
  \/ \E r \in Reqs : \E b \in Bodies013 : Book013_Upsert(r, b)
  \/ \E r \in Reqs : \E f \in Faults : Book013_Insert(r, f)
  \/ \E r \in Reqs : \E b \in BodiesSrv : BookSrv_Select(r, b)
  \/ \E r \in Reqs : BookSrv_InsertCustomer(r)
  \/ \E r \in Reqs : BookSrv_InsertBooking(r)
  \/ \E r \in Reqs : \E id \in JobIds : StartJobSrv(r, id)
  \/ \E r \in Reqs : \E id \in JobIds : \E ps \in PartLists : \E l \in Labors :
       CompleteJobSrv(r, id, ps, l)
  \/ \E r \in Reqs : \E b \in Bodies014 : Book014_InsertCustomer(r, b)
  \/ \E r \in Reqs : \E f \in Faults : Book014_InsertBooking(r, f)
  \/ \E r \in Reqs : \E b \in Bodies015 : Book015(r, b)
  \/ \E r \in Reqs : \E b \in Bodies003 : \E d \in Draws(variant) : Book003(r, b, d)
  \/ \E r \in Reqs : \E b \in Bodies005 : Book005(r, b)
  \/ \E r \in Reqs : \E b \in Bodies016 : Book016_Insert(r, b)
  \/ \E r \in Reqs : \E f \in Faults : Book016_InsertQR(r, f)
  \/ \E r \in Reqs : \E b \in CustomerBodies001 : Customer001(r, b)
  \/ \E r \in Reqs : \E b \in Bodies001 : Book001(r, b)
  \/ \E r \in Reqs : \E b \in Bodies006 : \E d \in Draws(variant) : Book006(r, b, d)
  \/ \E r \in Reqs : \E id \in JobIds : Start006(r, id)
  \/ \E r \in Reqs : \E id \in JobIds : Complete006(r, id)
  \/ \E r \in Reqs : \E id \in JobIds : \E c \in OverrideCodes : Override006(r, id, c)
  \/ \E r \in Reqs : \E b \in RegisterBodies008 : Register008(r, b)
  \/ \E r \in Reqs : \E b \in Bodies008 : \E d \in {1, 2} : Book008(r, b, d)
  \/ \E r \in Reqs : \E id \in JobIds : Start008(r, id)
  \/ \E r \in Reqs : \E id \in JobIds : Complete008(r, id)
  \/ \E r \in Reqs : Loyalty008(r)
  \/ \E r \in Reqs : \E b \in Bodies010 : Book010_Insert(r, b)
  \/ \E r \in Reqs : \E f \in Faults : Book010_AttachToken(r, f)
  \/ \E r \in Reqs : \E b \in BodiesA : BookA(r, b)
  \/ InitQRCodes_Select
  \/ \E id \in 1..MaxLegacy : \E d \in Draws(variant) : InitQRCodes_Update(id, d)
  \/ Crash010
  \/ InitDb
  \/ \E r \in Reqs : \E id \in TicketIds : \E c \in Callers : GetTicket008(r, id, c)
  \/ \E r \in Reqs : \E rt \in Routes : \E f \in Faults : GetList013(r, rt, f)
  \/ \E r \in Reqs : \E rt \in Routes : \E f \in Faults : GetList002(r, rt, f)
  \/ \E r \in Reqs : \E b \in Bodies017 : Book017(r, b)

Spec == Init /\ [][Next]_vars

-----------------------------------------------------------------------------
(* Properties of the booking workflow. *)

\* the bookings the handlers have inserted (the seeded rows come first)
Created == {b \in bookings : b.id > Cardinality(SeedBookings(variant))}

\* a create-booking call that has been answered
Answered(r) == req[r].pc = "done" /\ req[r].op = "book"

\* a create-booking call that has been answered with success
Booked(r) == Answered(r) /\ req[r].resp.ok

\* 'Pending' and 'pending' spell the one initial status
IsPending(st) == st \in {"pending", "Pending"}

\* C1: every successful createBooking call returns a booking with status
\* pending and a non-empty token, and no two bookings created so far carry
\* the same token, calls of the same instant for the same plate included
C1_PendingUniqueToken ==
  variant \in {"part_013", "part_015", "part_003"} =>
    /\ \A r \in Reqs :
         Booked(r) => IsPending(req[r].resp.status) /\ req[r].resp.token # NoSeq
    /\ \A a, b \in Created : a.id # b.id => a.token # b.token

\* C2: two createBooking calls, one after the other, with the same previously
\* unseen email and different booking details resolve to the same customer
\* id, and the directory holds exactly one row for that email afterwards
C2_SequentialSameCustomer ==
  variant \in {"server_js", "part_013", "part_014"} =>
    \A q, r \in Reqs :
      ( /\ Booked(q) /\ Booked(r)
        /\ q \in req[r].after
        /\ req[q].fresh
        /\ req[q].body.email = req[r].body.email
        /\ req[q].body.service_id # req[r].body.service_id )
      => /\ req[q].cust = req[r].cust
         /\ Cardinality({c \in customers : c.email = req[r].body.email}) = 1

\* a body the create handler has no reason of its own to refuse
ValidBody(b) ==
  /\ b.name # NoStr /\ b.email # NoStr /\ b.plate # NoSeq
  /\ b.service_id \in ServiceIds(variant)

\* C3: concurrent createBooking calls that carry the same brand-new email
\* leave exactly one Customer row for it and one Booking row per call, each
\* referencing that customer; none fails because another call created the
\* customer between its lookup and its insert
C3_ConcurrentSameEmail ==
  variant \in {"server_js", "part_013"} =>
    \A q, r \in Reqs :
      ( /\ q # r
        /\ Answered(q) /\ Answered(r)
        /\ req[q].fresh /\ req[r].fresh
        /\ req[q].body.email = req[r].body.email
        /\ ValidBody(req[q].body) /\ ValidBody(req[r].body) )
      => /\ req[q].resp.ok /\ req[r].resp.ok
         /\ req[q].cust = req[r].cust
         /\ Cardinality({c \in customers : c.email = req[r].body.email}) = 1
         /\ \A x \in {q, r} : \E b \in Created :
              req[x].wb = {b.id} /\ b.customer_id = req[x].cust

\* C4: createBooking with a serviceId of no existing Service is answered with
\* the not-found outcome (404) and writes nothing: no Booking row, no Customer
\* row (nor a change to one), even for a brand-new email
C4_UnknownServiceNotFound ==
  variant \in {"server_js", "part_013"} =>
    \A r \in Reqs :
      ( /\ Answered(r)
        /\ req[r].body.service_id # NoId
        /\ req[r].body.service_id \notin ServiceIds(variant) )
      => /\ req[r].resp.code = 404
         /\ req[r].wc = {} /\ req[r].uc = {} /\ req[r].wb = {}

\* the plate grammar of section 4: two letters, two digits, three letters once
\* the plate is in upper case and its spaces are set aside
PlateGrammar(s) ==
  LET t == RemoveSpaces(ToUpperCase(s)) IN
  /\ Len(t) = 7
  /\ \A i \in {1, 2, 5, 6, 7} : t[i] \in UpperLetters
  /\ \A i \in {3, 4} : t[i] \in Digits

\* C5: createBooking with a plate that does not match the plate grammar
\* ("AB1 CD", "ABCDEFG") fails with a validation error (400), and creates no
\* Booking row and no Customer row
C5_MalformedPlateRejected ==
  variant \in {"server_js", "part_013"} =>
    \A r \in Reqs :
      ( /\ Answered(r)
        /\ req[r].body.plate # NoSeq
        /\ ~PlateGrammar(req[r].body.plate) )
      => /\ req[r].resp.code = 400
         /\ req[r].wc = {} /\ req[r].wb = {}

\* a required field of the variant's create-booking body is missing
MissingField(v, b) ==
  \/ b.customer_id = NoId
  \/ b.service_id = NoId
  \/ b.location = NoStr
  \/ v = "part_016" /\ b.plate = NoSeq

\* C6: createBooking with a required field missing fails with a validation
\* error (400) before any storage write: customers and bookings are as they
\* were before the call
C6_MissingFieldRejected ==
  variant \in {"part_005", "part_016", "part_001"} =>
    \A r \in Reqs :
      (Answered(r) /\ MissingField(variant, req[r].body))
      => /\ req[r].resp.code = 400
         /\ req[r].wc = {} /\ req[r].wb = {}

\* the plate stored by the call of slot r
StoredPlate(r) == (CHOOSE b \in bookings : req[r].wb = {b.id}).plate

\* whitespace collapsed: no two spaces in a row
Collapsed(s) == \A i \in 1..(Len(s) - 1) : ~(s[i] = Space /\ s[i+1] = Space)

\* two plates that differ only in letter case or in the amount and position
\* of whitespace
SamePlate(s, t) == RemoveSpaces(ToUpperCase(s)) = RemoveSpaces(ToUpperCase(t))

\* C7: the plate stored on a booking is one canonical form of the input:
\* upper case with whitespace collapsed, a fixed point of the normalization,
\* and the same string for inputs that differ only in case or whitespace
C7_CanonicalPlate ==
  variant \in {"server_js", "part_008", "part_013"} =>
    /\ \A r \in Reqs :
         Booked(r) =>
           /\ \A i \in 1..Len(StoredPlate(r)) : StoredPlate(r)[i] \notin LowerLetters
           /\ Collapsed(StoredPlate(r))
           /\ NormalizePlate(variant, StoredPlate(r)) = StoredPlate(r)
    /\ \A q, r \in Reqs :
         (Booked(q) /\ Booked(r) /\ SamePlate(req[q].body.plate, req[r].body.plate))
         => StoredPlate(q) = StoredPlate(r)

\* C8: in every reachable state no two Customer rows have the same email
C8_EmailUnique ==
  variant \in {"part_014", "part_008"} =>
    \A c, d \in customers : (c.email # NoStr /\ c.email = d.email) => c.id = d.id

\* C9: in every reachable state every Booking row references an existing
\* Customer and an existing Service: no reference is absent or dangling
C9_ReferencesExist ==
  variant \in {"part_005", "part_016"} =>
    \A b \in bookings :
      /\ b.customer_id \in {c.id : c \in customers}
      /\ b.service_id \in ServiceIds(variant)

\* 'in_progress' and 'in-progress' spell the one status
StatusName(st) == IF st = "in_progress" THEN "in-progress" ELSE st

\* the edges of the status machine along which a status changes
Edges ==
  { <<"pending", "in-progress">>, <<"in-progress", "completed">>,
    <<"pending", "cancelled">> }

\* slot r is answered in this step: a successful override of booking id
Overrides(r, id) ==
  /\ req'[r] # req[r]
  /\ req'[r].pc = "done" /\ req'[r].op = "override" /\ req'[r].resp.ok
  /\ req'[r].body.id = id

\* a step changes statuses along the edges only, and overrides an in-progress
\* booking only
StatusStep ==
  variant \in {"part_006", "server_js", "part_008"} =>
    \A b \in bookings : \A c \in bookings' :
      b.id = c.id =>
        /\ b.status # c.status =>
             <<StatusName(b.status), StatusName(c.status)>> \in Edges
        /\ (\E r \in Reqs : Overrides(r, b.id)) =>
             StatusName(b.status) = "in-progress"

\* C10: every change of a booking's status follows pending -> in-progress ->
\* completed or pending -> cancelled, and the override acts on an in-progress
\* booking only, which it leaves in-progress
C10_StatusMachine == [][StatusStep]_vars

\* the enumerated values of bookings.status
StatusEnum == {"pending", "in-progress", "completed", "cancelled"}

\* C11: the status of every booking the handlers have written (created,
\* started, completed) is one of pending, in-progress, completed, cancelled,
\* spelled exactly so
C11_StatusEnumerated ==
  variant \in {"part_013", "part_008"} =>
    \A b \in Created : b.status \in StatusEnum

\* C12: once the booking insert has committed, a failure of the token step
\* (encoding, or persisting the token) is not reported as a failure of the
\* call: no createBooking call is answered with a failure outcome while its
\* Booking row remains in the store
C12_NoFailureAfterCommit ==
  variant \in {"part_010", "part_016"} =>
    \A r \in Reqs :
      (Answered(r) /\ \E b \in bookings : req[r].wb = {b.id})
      => req[r].resp.ok /\ req[r].resp.book \in req[r].wb

\* the behaviours of the servers whose create handler writes the booking and
\* answers in the same try block: the first server of server.js, part_010
\* and part_015
InitStored == Init /\ variant \in {"server_a", "part_010", "part_015"}

NextStored ==
  \/ Tick
  \/ \E r \in Reqs : \E b \in BodiesA : BookA(r, b)
  \/ \E r \in Reqs : \E b \in Bodies010 : Book010_Insert(r, b)
  \/ \E r \in Reqs : \E f \in Faults : Book010_AttachToken(r, f)
  \/ \E r \in Reqs : \E b \in Bodies015 : Book015(r, b)

SpecStored == InitStored /\ [][NextStored]_vars

Storable(v, b) ==
  /\ b.plate # NoSeq
  /\ v = "part_003" =>
       /\ b.customer_id \in {c.id : c \in customers}
       /\ b.service_id \in ServiceIds(v)
       /\ b.location # NoStr

\* C14: a minted token that collides with the token of another booking is
\* minted again, and the booking is still created: with a storable body the
\* call is answered with success whatever token was first drawn
C14_CollisionRetried ==
  variant \in {"part_003", "part_006"} =>
    \A r \in Reqs :
      (Answered(r) /\ Storable(variant, req[r].body))
      => req[r].resp.ok /\ \E b \in Created : req[r].wb = {b.id}

\* C15: a failure of the QR encoding does not abort the booking: for a valid
\* body the Booking row is persisted and reported whether or not the encoding
\* fails (the token then being absent)
C15_EncodingFailureKeepsBooking ==
  variant \in {"part_014", "part_013"} =>
    \A r \in Reqs :
      ( /\ Answered(r)
        /\ ValidBody(req[r].body)
        /\ variant = "part_014" => req[r].body.location # NoStr )
      => req[r].resp.ok /\ \E b \in Created : req[r].wb = {b.id}

\* slot r is the one whose handler takes this step (the other slots change in
\* their field after at most)
Acting(r) == [req'[r] EXCEPT !.after = {}] # [req[r] EXCEPT !.after = {}]

\* a step of the create handler of slot r writes rows of its own call only,
\* and a call that ends in success has written at most one Customer row, one
\* Booking row, and a token on that row
FrameOfCreate(r) ==
  /\ parts' = parts /\ loyalty' = loyalty
  /\ \A c \in customers : c \in customers'
  /\ \A c \in customers' \ customers : c.id \in req'[r].wc
  /\ \A b \in bookings : b.id \notin req'[r].wb => b \in bookings'
  /\ \A b \in bookings' \ bookings : b.id \in req'[r].wb
  /\ (req'[r].pc = "done" /\ req'[r].resp.ok) =>
       /\ Cardinality(req'[r].wc) <= 1 /\ req'[r].uc = {}
       /\ \E b \in bookings' : req'[r].wb = {b.id} /\ b.token # NoSeq

FrameStep ==
  variant \in {"part_016", "part_010", "server_js"} =>
    \A r \in Reqs : (Acting(r) /\ req'[r].op = "book") => FrameOfCreate(r)

\* C16: a successful createBooking call changes the store by exactly at most
\* one new Customer row, one new Booking row and a token attached to that
\* row; every other row and table is unchanged
C16_CreateFrame == [][FrameStep]_vars

\* a step of a create handler keeps every stored Customer row, with the
\* display name it has
CustomerKeptStep ==
  variant \in {"part_013", "server_js"} =>
    \A r \in Reqs : (Acting(r) /\ req'[r].op = "book") =>
      \A c \in customers :
        \E d \in customers' : d.id = c.id /\ d.email = c.email /\ d.name = c.name

\* C17: a customer that already exists under the request's email is reused as
\* stored: createBooking neither deletes the Customer row nor changes its
\* display name, whatever name the request carries
C17_CustomerReusedAsStored == [][CustomerKeptStep]_vars

\* the server has started and no create call stands between its insert and
\* its token step
Settled == boot.pc = "up" /\ \A r \in Reqs : req[r].pc # "insqr"

\* C18: a crash or failure between the booking insert and the token attach
\* leaves neither two bookings with one token nor a booking without a token
\* for good: once the start-up back-fill has run to completion, no booking
\* has an absent token and all tokens are pairwise distinct
C18_BackfillCompletes ==
  variant \in {"part_006", "part_010"} =>
    ( Settled =>
        /\ \A b \in bookings : b.token # NoSeq
        /\ \A a, b \in bookings : a.token = b.token => a.id = b.id )

\* C19: every success response of the booking-creation endpoint includes the
\* id assigned to the new booking
C19_SuccessCarriesId ==
  variant \in {"server_a", "part_015", "part_014"} =>
    \A r \in Reqs : Booked(r) => req[r].resp.book # NoId /\ req[r].wb = {req[r].resp.book}

\* the bookings that carry a token
Tokened == {b \in bookings : b.token # NoSeq}

\* C20: the token payload minted for a booking determines that booking's id:
\* a decoding maps the payload of every stored token to the id of the booking
\* that carries it, which is to say that the payloads of two different
\* bookings are different (QRDataURL is one-to-one, so payloads are equal
\* exactly when the tokens are)
C20_PayloadDeterminesId ==
  variant \in {"part_016", "part_017"} =>
    \A a, b \in Tokened : a.token[2] = b.token[2] => a.id = b.id

\* the behaviours of the servers that keep loyalty accounts: part_003, and
\* part_008 on the requests that complete jobs
InitLoyalty ==
  Init /\ (variant = "part_003" \/ (variant = "part_008" /\ mix = "jobs"))

NextLoyalty ==
  \/ \E r \in Reqs : \E b \in Bodies003 : \E d \in Draws(variant) : Book003(r, b, d)
  \/ \E r \in Reqs : \E b \in RegisterBodies008 : Register008(r, b)
  \/ \E r \in Reqs : \E b \in Bodies008 : \E d \in {1, 2} : Book008(r, b, d)
  \/ \E r \in Reqs : \E id \in JobIds : Complete008(r, id)
  \/ \E r \in Reqs : Loyalty008(r)

SpecLoyalty == InitLoyalty /\ [][NextLoyalty]_vars

\* C21: in every reachable state there is at most one loyalty account per
\* customer, whatever job completions have run, two concurrent completions
\* for the same customer included
C21_OneAccountPerCustomer ==
  variant \in {"part_008", "part_003"} =>
    \A k, l \in loyalty : k.customer_id = l.customer_id => k = l

\* two completions for one customer were in flight together and both have
\* written the customer's account
C21_Witness ==
  /\ variant = "part_008"
  /\ \E q, r \in Reqs :
       /\ q # r
       /\ req[q].pc = "done" /\ req[q].op = "complete" /\ req[q].resp.ok
       /\ req[r].pc = "done" /\ req[r].op = "complete" /\ req[r].resp.ok
       /\ req[q].cust = req[r].cust
       /\ q \notin req[r].after /\ r \notin req[q].after
       /\ \E l \in loyalty : l.customer_id = req[q].cust /\ l.visits = 2

\* exactly one of latitude and longitude is present
OneCoord(x) == (x.lat = NoStr) # (x.lng = NoStr)

\* C22: coordinates are optional but paired: a booking request with exactly
\* one of latitude and longitude is rejected with a validation error and
\* stores nothing, a request with neither (and nothing else wrong) is
\* accepted, and no stored booking has one coordinate without the other
C22_CoordinatesPaired ==
  (variant \in {"part_017", "part_013", "part_015"} /\ mix = "coords") =>
    /\ \A r \in Reqs : Answered(r) =>
         /\ OneCoord(req[r].body) =>
              req[r].resp.code = 400 /\ req[r].wb = {} /\ req[r].wc = {}
         /\ (req[r].body.lat = NoStr /\ req[r].body.lng = NoStr) => req[r].resp.ok
    /\ \A b \in bookings : ~OneCoord(b)

\* C23: a booking whose creation was reported as successful is never
\* afterwards removed by the service's own start-up initialization: no
\* interleaving of a create request with the drop-and-recreate initDb loses
\* an acknowledged booking
C23_AcknowledgedBookingKept ==
  (variant \in {"part_013", "part_014", "server_a"} /\ mix = "restart") =>
    \A r \in Reqs : Booked(r) =>
      \E b \in bookings :
        /\ req[r].wb = {b.id}
        /\ b.plate = NormalizePlate(variant, req[r].body.plate)

\* C24: every request to a booking-creation or listing endpoint eventually
\* receives a response, also when the body lacks the vehicle plate or the
\* store query fails: no request is left in a handler that has thrown and
\* will take no further step
C24_EveryRequestAnswered ==
  variant \in {"part_008", "part_013", "part_002"} =>
    \A r \in Reqs : req[r].pc # "hung"

\* a step of the complete-job handler of slot r is all or nothing
CompleteAllOrNothing(r) ==
  LET id == req'[r].body.id
      ps == req'[r].body.parts
      total == PartsCost(ps) + req'[r].body.labor IN
  \/ /\ req'[r].resp.ok
     /\ \E b \in bookings' : b.id = id /\ b.status = "completed" /\ b.total_cost = total
     /\ parts' = parts \o PartRows(id, ps)
  \/ /\ ~req'[r].resp.ok
     /\ parts' = parts
     /\ \A b \in bookings : b.id = id => b \in bookings'

CompleteStep ==
  variant = "server_js" =>
    \A r \in Reqs :
      (Acting(r) /\ req'[r].op = "complete" /\ req'[r].pc = "done") =>
        CompleteAllOrNothing(r)

\* C25: completing a job is all-or-nothing: after a complete-job call either
\* the booking is completed with its total cost set, every submitted part is
\* recorded and the response is success, or the response is a failure and the
\* booking's status, total cost and recorded parts are unchanged
C25_CompleteAllOrNothing == [][CompleteStep]_vars

\* sum of part_cost * quantity over the rows of job_parts of booking id
RECURSIVE RowsCost(_, _)
RowsCost(rows, id) ==
  IF rows = << >> THEN 0
  ELSE (IF Head(rows).booking_id = id THEN Head(rows).part_cost * Head(rows).quantity
        ELSE 0) + RowsCost(Tail(rows), id)

\* a successful complete-job call leaves the booking's total cost equal to
\* its labor plus the cost of all the parts recorded for the booking
TotalStep ==
  variant = "server_js" =>
    \A r \in Reqs :
      (Acting(r) /\ req'[r].op = "complete" /\ req'[r].pc = "done" /\ req'[r].resp.ok) =>
        \A b \in bookings' : b.id = req'[r].body.id =>
          b.total_cost = req'[r].body.labor + RowsCost(parts', b.id)

\* C26: after any sequence of successful complete-job calls, the total cost
\* stored on a booking equals the labor of the last call plus the sum of
\* part_cost * quantity over all job_parts rows recorded for that booking,
\* a repeated completion of the same booking included
C26_TotalMatchesParts == [][TotalStep]_vars

\* a complete call for a job that was completed already (redo), or for a job
\* id that does not exist, leaves every visit count as it is
VisitsStep ==
  variant = "part_008" =>
    \A r \in Reqs :
      ( /\ Acting(r) /\ req'[r].op = "complete"
        /\ \/ req[r].pc = "upsert" /\ req[r].redo
           \/ req'[r].body.id \notin {b.id : b \in bookings} )
      => loyalty' = loyalty

\* C27: a customer's loyalty visit count equals the number of distinct jobs
\* of that customer that have been completed: completing the same job more
\* than once, or calling complete with a job id that does not exist, does not
\* change any visit count
C27_VisitsCountCompletedJobs == [][VisitsStep]_vars

\* a start, complete or override call that names no existing booking is not
\* answered with success and changes no booking
JobOps == {"start", "complete", "override"}

UnknownJobStep ==
  variant \in {"part_006", "server_js"} =>
    \A r \in Reqs :
      ( /\ Acting(r) /\ req'[r].op \in JobOps /\ req'[r].pc = "done"
        /\ req'[r].body.id \notin {b.id : b \in bookings} )
      => ~req'[r].resp.ok /\ bookings' = bookings

\* C28: the start, complete and override operations report success only when
\* a booking was actually changed: a call that names a booking id that does
\* not exist never answers success:true, and leaves every booking unchanged
C28_UnknownJobNotSuccess == [][UnknownJobStep]_vars

\* the behaviours of part_006 on the mechanic's requests
InitOverride == Init /\ variant = "part_006" /\ mix = "jobs"

NextOverride ==
  \/ \E r \in Reqs : \E id \in JobIds : Start006(r, id)
  \/ \E r \in Reqs : \E id \in JobIds : Complete006(r, id)
  \/ \E r \in Reqs : \E id \in JobIds : \E c \in OverrideCodes : Override006(r, id, c)

SpecOverride == InitOverride /\ [][NextOverride]_vars

\* an override call without a code is answered 400 and changes no booking,
\* and an override call that changes a booking carries a code
OverrideStep ==
  variant = "part_006" =>
    \A r \in Reqs :
      (Acting(r) /\ req'[r].op = "override") =>
        /\ req'[r].body.code = NoStr =>
             req'[r].pc = "done" /\ req'[r].resp.code = 400 /\ bookings' = bookings
        /\ bookings' # bookings => req'[r].body.code # NoStr

\* C29: an override request without a code is rejected with a 400 response
\* and leaves the booking's status and start time unchanged; the booking is
\* modified only by override requests that carry a code
C29_OverrideNeedsCode == [][OverrideStep]_vars

\* an override without a code was answered 400 for a booking that exists and
\* has not been started, and an override with a code has started another
C29_Witness ==
  /\ variant = "part_006"
  /\ \E q, r \in Reqs :
       /\ req[q].pc = "done" /\ req[q].op = "override" /\ req[q].body.code = NoStr
       /\ req[q].resp.code = 400
       /\ \E b \in bookings :
            b.id = req[q].body.id /\ b.status = "pending" /\ b.start_time = NoTime
       /\ req[r].pc = "done" /\ req[r].op = "override" /\ req[r].body.code # NoStr
       /\ \E b \in bookings :
            b.id = req[r].body.id /\ b.status = "in-progress" /\ b.start_time # NoTime

\* the behaviours of part_008 on the requests that ask for tickets
InitTicket == Init /\ variant = "part_008" /\ mix = "tickets"

NextTicket ==
  \/ \E r \in Reqs : \E id \in TicketIds : Start008(r, id)
  \/ \E r \in Reqs : \E id \in TicketIds : Complete008(r, id)
  \/ \E r \in Reqs : Loyalty008(r)
  \/ \E r \in Reqs : \E id \in TicketIds : \E c \in Callers : GetTicket008(r, id, c)

SpecTicket == InitTicket /\ [][NextTicket]_vars

\* the jobs that differ from job in parts used, start time and end time only
Variations(job) ==
  { [job EXCEPT !.parts_used = pu, !.start_time = st, !.end_time = et] :
      pu \in {NoStr, PartsUsed008}, st \in {NoTime, now}, et \in {NoTime, now} }

\* the ticket a request receives: none without a valid token; for a caller
\* who is not a mechanic the ticket that every variation of the job yields;
\* for a mechanic the ticket with the job's parts used, start and end time
TicketStep ==
  variant = "part_008" =>
    \A r \in Reqs :
      (Acting(r) /\ req'[r].op = "ticket") =>
        LET caller == req'[r].body.caller
            t == req'[r].resp.token IN
        /\ ~Authorized(caller) => ~req'[r].resp.ok /\ t = NoSeq
        /\ req'[r].resp.ok =>
             \A job \in {b \in bookings : b.id = req'[r].body.id} :
               IF caller = "mechanic"
               THEN /\ Len(t) = 8
                    /\ <<t[6], t[7], t[8]>> = <<job.parts_used, job.start_time, job.end_time>>
               ELSE /\ Len(t) = 5
                    /\ \A v \in Variations(job) : TicketOf(v, caller) = t

\* C30: the ticket returned for a job to a caller whose role is not mechanic
\* does not depend on the job's parts used, start time or end time: jobs that
\* differ only in those fields yield identical tickets for a non-mechanic,
\* only a mechanic's ticket contains them, and a request without a valid
\* token receives no ticket at all
C30_TicketHidesJobDetails == [][TicketStep]_vars

\* a customer has received the ticket of a job whose completion, with its
\* parts used and end time, had been answered before the ticket was asked for
C30_Witness ==
  /\ variant = "part_008"
  /\ \E q, r \in Reqs :
       /\ req[q].pc = "done" /\ req[q].op = "ticket" /\ req[q].resp.ok
       /\ req[q].body.caller = "customer"
       /\ req[r].pc = "done" /\ req[r].op = "complete" /\ req[r].resp.ok
       /\ req[r].body.id = req[q].body.id
       /\ r \in req[q].after

=============================================================================
